---------------------------- MODULE Spec2Model ----------------------------
(***************************************************************************)
(* A model of the Domeneshop API client (DomeneshopClient): the            *)
(* constructor, the request pipeline and the endpoint methods built on it. *)
(*                                                                         *)
(* Strings are sequences of UTF-16 code units (integers), so that the      *)
(* conversions the client relies on (btoa, encodeURIComponent, the URL     *)
(* parser and serialiser, URLSearchParams, JSON.stringify, JSON.parse)     *)
(* can be computed character by character.                                 *)
(***************************************************************************)
EXTENDS Integers, Sequences, FiniteSets, TLC

(***************************************************************************)
(* Strings                                                                 *)
(***************************************************************************)

\* The printable ASCII characters, in code order starting at U+0020 (the
\* double quote, the backslash and the backtick are written by name).
AsciiChars ==
    << " ", "!", "QUOTE", "#", "$", "%", "&", "'", "(", ")", "*", "+", ",", "-",
       ".", "/", "0", "1", "2", "3", "4", "5", "6", "7", "8", "9", ":", ";",
       "<", "=", ">", "?", "@", "A", "B", "C", "D", "E", "F", "G", "H", "I",
       "J", "K", "L", "M", "N", "O", "P", "Q", "R", "S", "T", "U", "V", "W",
       "X", "Y", "Z", "[", "BACKSLASH", "]", "^", "_", "BACKTICK", "a", "b", "c",
       "d", "e", "f", "g", "h", "i", "j", "k", "l", "m", "n", "o", "p", "q",
       "r", "s", "t", "u", "v", "w", "x", "y", "z", "{", "|", "}", "~" >>

\* The code unit of a printable ASCII character.
Ord(c) == 31 + (CHOOSE i \in 1..Len(AsciiChars) : AsciiChars[i] = c)

\* A string literal, written as a tuple of characters.
S(t) == [i \in 1..Len(t) |-> Ord(t[i])]

\* An optional value: absent (undefined) or present.
None == << >>
Some(x) == << x >>
IsSome(o) == Len(o) = 1
Get(o) == o[1]

StartsWith(s, p) == Len(s) >= Len(p) /\ SubSeq(s, 1, Len(p)) = p
EndsWith(s, p) == Len(s) >= Len(p) /\ SubSeq(s, Len(s) - Len(p) + 1, Len(s)) = p
Contains(s, p) == \E i \in 1..(Len(s) - Len(p) + 1) : SubSeq(s, i, i + Len(p) - 1) = p
Drop(s, n) == SubSeq(s, n + 1, Len(s))

\* The first position at or after i holding one of the code units in cs,
\* Len(s) + 1 when there is none.
RECURSIVE FindAny(_, _, _)
FindAny(s, i, cs) ==
    IF i > Len(s) THEN Len(s) + 1
    ELSE IF s[i] \in cs THEN i
    ELSE FindAny(s, i + 1, cs)

\* s cut at every occurrence of the code unit c.
RECURSIVE Split(_, _)
Split(s, c) ==
    LET j == FindAny(s, 1, {c})
    IN  IF j > Len(s) THEN << s >>
        ELSE << SubSeq(s, 1, j - 1) >> \o Split(Drop(s, j), c)

RECURSIVE Join(_, _)
Join(parts, sep) ==
    IF Len(parts) = 0 THEN << >>
    ELSE IF Len(parts) = 1 THEN parts[1]
    ELSE parts[1] \o sep \o Join(Tail(parts), sep)

\* A non-negative integer in decimal.
RECURSIVE Digits(_)
Digits(n) ==
    IF n < 10 THEN << 48 + n >>
    ELSE Append(Digits(n \div 10), 48 + (n % 10))

\* `${n}` for an integer n.
NumberToString(n) == IF n < 0 THEN << 45 >> \o Digits(0 - n) ELSE Digits(n)

IsDigit(c) == c >= 48 /\ c <= 57
IsAlpha(c) == (c >= 65 /\ c <= 90) \/ (c >= 97 /\ c <= 122)

HexDigits == S(<< "0", "1", "2", "3", "4", "5", "6", "7", "8", "9",
                  "A", "B", "C", "D", "E", "F" >>)

\* "%XX" for a byte.
PercentByte(b) == << 37, HexDigits[(b \div 16) + 1], HexDigits[(b % 16) + 1] >>

HexValue(c) ==
    IF IsDigit(c) THEN c - 48
    ELSE IF c >= 65 /\ c <= 70 THEN c - 55
    ELSE IF c >= 97 /\ c <= 102 THEN c - 87
    ELSE 0 - 1

\* The UTF-8 bytes of a code point below U+10000.
Utf8(cp) ==
    IF cp < 128 THEN << cp >>
    ELSE IF cp < 2048 THEN << 192 + (cp \div 64), 128 + (cp % 64) >>
    ELSE << 224 + (cp \div 4096), 128 + ((cp \div 64) % 64), 128 + (cp % 64) >>

IsHighSurrogate(c) == c >= 55296 /\ c <= 56319
IsLowSurrogate(c) == c >= 56320 /\ c <= 57343

(***************************************************************************)
(* btoa / atob                                                             *)
(***************************************************************************)

B64Alphabet ==
    S(<< "A", "B", "C", "D", "E", "F", "G", "H", "I", "J", "K", "L", "M",
         "N", "O", "P", "Q", "R", "S", "T", "U", "V", "W", "X", "Y", "Z",
         "a", "b", "c", "d", "e", "f", "g", "h", "i", "j", "k", "l", "m",
         "n", "o", "p", "q", "r", "s", "t", "u", "v", "w", "x", "y", "z",
         "0", "1", "2", "3", "4", "5", "6", "7", "8", "9", "+", "/" >>)

\* The base64 text of a sequence of bytes, "=" padded.
RECURSIVE Base64(_)
Base64(b) ==
    IF Len(b) = 0 THEN << >>
    ELSE IF Len(b) = 1 THEN
        << B64Alphabet[(b[1] \div 4) + 1],
           B64Alphabet[((b[1] % 4) * 16) + 1], 61, 61 >>
    ELSE IF Len(b) = 2 THEN
        << B64Alphabet[(b[1] \div 4) + 1],
           B64Alphabet[((b[1] % 4) * 16) + (b[2] \div 16) + 1],
           B64Alphabet[((b[2] % 16) * 4) + 1], 61 >>
    ELSE
        << B64Alphabet[(b[1] \div 4) + 1],
           B64Alphabet[((b[1] % 4) * 16) + (b[2] \div 16) + 1],
           B64Alphabet[((b[2] % 16) * 4) + (b[3] \div 64) + 1],
           B64Alphabet[(b[3] % 64) + 1] >> \o Base64(Drop(b, 3))

\* btoa(s): each code unit is one byte; a code unit above U+00FF makes it
\* throw InvalidCharacterError.
BtoaOk(s) == \A i \in 1..Len(s) : s[i] <= 255
Btoa(s) == Base64(s)

\* The value of a base64 character, -1 for any other character.
B64Value(c) ==
    IF \E i \in 1..64 : B64Alphabet[i] = c
    THEN (CHOOSE i \in 1..64 : B64Alphabet[i] = c) - 1
    ELSE 0 - 1

\* atob(t) for a padded base64 text t: the bytes it stands for.
RECURSIVE Atob(_)
Atob(t) ==
    IF Len(t) < 4 THEN << >>
    ELSE
        LET a == B64Value(t[1])
            b == B64Value(t[2])
            c == B64Value(t[3])
            d == B64Value(t[4])
            b1 == (a * 4) + (b \div 16)
            b2 == ((b % 16) * 16) + (c \div 4)
            b3 == ((c % 4) * 64) + d
        IN  IF t[3] = 61 THEN << b1 >>
            ELSE IF t[4] = 61 THEN << b1, b2 >>
            ELSE << b1, b2, b3 >> \o Atob(Drop(t, 4))

(***************************************************************************)
(* Percent-encoding                                                        *)
(***************************************************************************)

RECURSIVE PercentBytes(_)
PercentBytes(bytes) ==
    IF Len(bytes) = 0 THEN << >>
    ELSE PercentByte(bytes[1]) \o PercentBytes(Tail(bytes))

\* The characters encodeURIComponent leaves as they are:
\* A-Z a-z 0-9 - _ . ! ~ * ' ( )
UriUnreserved(c) ==
    IsAlpha(c) \/ IsDigit(c) \/ c \in {45, 95, 46, 33, 126, 42, 39, 40, 41}

\* encodeURIComponent throws URIError on a surrogate that is not part of a
\* pair.
RECURSIVE UriComponentOk(_)
UriComponentOk(s) ==
    IF Len(s) = 0 THEN TRUE
    ELSE IF IsHighSurrogate(s[1]) THEN
        Len(s) >= 2 /\ IsLowSurrogate(s[2]) /\ UriComponentOk(Drop(s, 2))
    ELSE IF IsLowSurrogate(s[1]) THEN FALSE
    ELSE UriComponentOk(Tail(s))

\* The UTF-8 bytes of the code point a surrogate pair stands for.
Utf8Pair(hi, lo) ==
    LET cp == 65536 + ((hi - 55296) * 1024) + (lo - 56320)
    IN  << 240 + (cp \div 262144), 128 + ((cp \div 4096) % 64),
           128 + ((cp \div 64) % 64), 128 + (cp % 64) >>

\* encodeURIComponent(s), for s with UriComponentOk(s).
RECURSIVE EncodeURIComponent(_)
EncodeURIComponent(s) ==
    IF Len(s) = 0 THEN << >>
    ELSE IF UriUnreserved(s[1]) THEN << s[1] >> \o EncodeURIComponent(Tail(s))
    ELSE IF IsHighSurrogate(s[1]) /\ Len(s) >= 2 THEN
        PercentBytes(Utf8Pair(s[1], s[2])) \o EncodeURIComponent(Drop(s, 2))
    ELSE PercentBytes(Utf8(s[1])) \o EncodeURIComponent(Tail(s))

\* The characters the application/x-www-form-urlencoded serialiser leaves
\* as they are: A-Z a-z 0-9 * - . _
FormUnreserved(c) == IsAlpha(c) \/ IsDigit(c) \/ c \in {42, 45, 46, 95}

\* A name or a value as URLSearchParams serialises it: a space becomes "+",
\* a surrogate that is not part of a pair becomes U+FFFD.
RECURSIVE FormEncode(_)
FormEncode(s) ==
    IF Len(s) = 0 THEN << >>
    ELSE IF FormUnreserved(s[1]) THEN << s[1] >> \o FormEncode(Tail(s))
    ELSE IF s[1] = 32 THEN << 43 >> \o FormEncode(Tail(s))
    ELSE IF IsHighSurrogate(s[1]) /\ Len(s) >= 2 /\ IsLowSurrogate(s[2]) THEN
        PercentBytes(Utf8Pair(s[1], s[2])) \o FormEncode(Drop(s, 2))
    ELSE IF IsHighSurrogate(s[1]) \/ IsLowSurrogate(s[1]) THEN
        PercentBytes(Utf8(65533)) \o FormEncode(Tail(s))
    ELSE PercentBytes(Utf8(s[1])) \o FormEncode(Tail(s))

\* The code point of a sequence of UTF-8 bytes standing for one code point
\* below U+10000.
Utf8Value(bytes) ==
    IF Len(bytes) = 1 THEN bytes[1]
    ELSE IF Len(bytes) = 2 THEN ((bytes[1] - 192) * 64) + (bytes[2] - 128)
    ELSE ((bytes[1] - 224) * 4096) + ((bytes[2] - 128) * 64) + (bytes[3] - 128)

\* The number of bytes of the UTF-8 sequence that starts with byte b.
Utf8Length(b) == IF b < 128 THEN 1 ELSE IF b < 224 THEN 2 ELSE 3

RECURSIVE Utf8Decode(_)
Utf8Decode(bytes) ==
    IF Len(bytes) = 0 THEN << >>
    ELSE
        LET n == Utf8Length(bytes[1])
        IN  IF Len(bytes) < n THEN << 65533 >>
            ELSE << Utf8Value(SubSeq(bytes, 1, n)) >> \o Utf8Decode(Drop(bytes, n))

\* The bytes of a form-urlencoded name or value: "+" is a space, "%XX" a
\* byte.
RECURSIVE FormBytes(_)
FormBytes(s) ==
    IF Len(s) = 0 THEN << >>
    ELSE IF s[1] = 43 THEN << 32 >> \o FormBytes(Tail(s))
    ELSE IF s[1] = 37 /\ Len(s) >= 3 /\ HexValue(s[2]) >= 0 /\ HexValue(s[3]) >= 0
        THEN << (HexValue(s[2]) * 16) + HexValue(s[3]) >> \o FormBytes(Drop(s, 3))
    ELSE << s[1] >> \o FormBytes(Tail(s))

FormDecode(s) == Utf8Decode(FormBytes(s))

\* One "name=value" piece of a query as a pair << name, value >>.
FormPair(piece) ==
    LET j == FindAny(piece, 1, {61})
    IN  << FormDecode(SubSeq(piece, 1, j - 1)), FormDecode(Drop(piece, j)) >>

\* The list of pairs a query string stands for (the URLSearchParams of a
\* URL): pieces are separated by "&", empty pieces are skipped.
RECURSIVE FormPairs(_)
FormPairs(pieces) ==
    IF Len(pieces) = 0 THEN << >>
    ELSE IF Len(pieces[1]) = 0 THEN FormPairs(Tail(pieces))
    ELSE << FormPair(pieces[1]) >> \o FormPairs(Tail(pieces))

FormParse(query) == FormPairs(Split(query, 38))

\* The query string of a list of pairs.
RECURSIVE FormSerialize(_)
FormSerialize(pairs) ==
    IF Len(pairs) = 0 THEN << >>
    ELSE
        LET piece == FormEncode(pairs[1][1]) \o << 61 >> \o FormEncode(pairs[1][2])
        IN  IF Len(pairs) = 1 THEN piece
            ELSE piece \o << 38 >> \o FormSerialize(Tail(pairs))

(***************************************************************************)
(* URL: new URL(string), url.searchParams.set, url.toString()              *)
(***************************************************************************)

HttpsPrefix == S(<< "h", "t", "t", "p", "s", ":", "/", "/" >>)
HttpPrefix == S(<< "h", "t", "t", "p", ":", "/", "/" >>)

\* The characters the URL parser percent-encodes in a path segment.
PathEncodeSet(c) == c < 32 \/ c > 126 \/ c \in {32, 34, 35, 60, 62, 63, 94, 96, 123, 125}

RECURSIVE PathEncode(_)
PathEncode(s) ==
    IF Len(s) = 0 THEN << >>
    ELSE IF PathEncodeSet(s[1]) THEN PercentBytes(Utf8(s[1])) \o PathEncode(Tail(s))
    ELSE << s[1] >> \o PathEncode(Tail(s))

\* "%2e" in either case.
IsEncodedDot(s) == Len(s) = 3 /\ s[1] = 37 /\ s[2] = 50 /\ s[3] \in {69, 101}

IsSingleDot(seg) == seg = << 46 >> \/ IsEncodedDot(seg)

IsDoubleDot(seg) ==
    \/ seg = << 46, 46 >>
    \/ Len(seg) = 4 /\ seg[1] = 46 /\ IsEncodedDot(Drop(seg, 1))
    \/ Len(seg) = 4 /\ seg[4] = 46 /\ IsEncodedDot(SubSeq(seg, 1, 3))
    \/ Len(seg) = 6 /\ IsEncodedDot(SubSeq(seg, 1, 3)) /\ IsEncodedDot(Drop(seg, 3))

\* The path state of the URL parser: raw holds the pieces between the "/"
\* of the path; a ".." piece removes the last segment kept so far, a "."
\* piece adds nothing, and either of them in last position leaves an empty
\* last segment.
RECURSIVE PathSegments(_, _)
PathSegments(raw, acc) ==
    IF Len(raw) = 0 THEN acc
    ELSE
        LET seg == raw[1]
            last == Len(raw) = 1
            popped == IF Len(acc) = 0 THEN acc ELSE SubSeq(acc, 1, Len(acc) - 1)
        IN  IF IsDoubleDot(seg) THEN
                PathSegments(Tail(raw), IF last THEN Append(popped, << >>) ELSE popped)
            ELSE IF IsSingleDot(seg) THEN
                PathSegments(Tail(raw), IF last THEN Append(acc, << >>) ELSE acc)
            ELSE PathSegments(Tail(raw), Append(acc, PathEncode(seg)))

\* new URL(s) throws TypeError unless s is an absolute URL; the model parses
\* http and https URLs with a host.
UrlOk(s) ==
    LET rest == IF StartsWith(s, HttpsPrefix) THEN Drop(s, Len(HttpsPrefix))
                ELSE IF StartsWith(s, HttpPrefix) THEN Drop(s, Len(HttpPrefix))
                ELSE << >>
    IN  Len(rest) > 0 /\ rest[1] \notin {47, 63, 35, 92}

\* new URL(s), for s with UrlOk(s).
UrlParse(s) ==
    LET pre == IF StartsWith(s, HttpsPrefix) THEN HttpsPrefix ELSE HttpPrefix
        rest == Drop(s, Len(pre))
        hostEnd == FindAny(rest, 1, {47, 63, 35})
        afterHost == Drop(rest, hostEnd - 1)
        pathEnd == FindAny(afterHost, 1, {63, 35})
        rawPath == SubSeq(afterHost, 1, pathEnd - 1)
        afterPath == Drop(afterHost, pathEnd - 1)
        hasQuery == Len(afterPath) > 0 /\ afterPath[1] = 63
        queryEnd == FindAny(afterPath, 1, {35})
        afterQuery == Drop(afterPath, queryEnd - 1)
    IN  [ origin |-> pre \o SubSeq(rest, 1, hostEnd - 1),
          path |-> PathSegments(
                       IF Len(rawPath) = 0 THEN << << >> >>
                       ELSE Split(Drop(rawPath, 1), 47), << >>),
          query |-> IF hasQuery THEN Some(SubSeq(afterPath, 2, queryEnd - 1)) ELSE None,
          fragment |-> IF Len(afterQuery) > 0 THEN Some(Drop(afterQuery, 1)) ELSE None ]

\* url.searchParams.set(key, value): the first pair named key gets the
\* value and any other pair named key is removed, or the pair is appended;
\* the URL's query becomes the serialised list.
RECURSIVE WithoutKey(_, _)
WithoutKey(pairs, key) ==
    IF Len(pairs) = 0 THEN << >>
    ELSE IF pairs[1][1] = key THEN WithoutKey(Tail(pairs), key)
    ELSE << pairs[1] >> \o WithoutKey(Tail(pairs), key)

PairsSet(pairs, key, value) ==
    IF \E i \in 1..Len(pairs) : pairs[i][1] = key
    THEN LET i == CHOOSE i \in 1..Len(pairs) :
                      pairs[i][1] = key /\ \A j \in 1..(i - 1) : pairs[j][1] # key
         IN  SubSeq(pairs, 1, i - 1) \o << << key, value >> >>
                 \o WithoutKey(Drop(pairs, i), key)
    ELSE Append(pairs, << key, value >>)

SearchParamsSet(url, key, value) ==
    LET pairs == IF IsSome(url.query) THEN FormParse(Get(url.query)) ELSE << >>
    IN  [url EXCEPT !.query = Some(FormSerialize(PairsSet(pairs, key, value)))]

\* url.toString()
UrlToString(url) ==
    url.origin \o << 47 >> \o Join(url.path, << 47 >>)
        \o (IF IsSome(url.query) THEN << 63 >> \o Get(url.query) ELSE << >>)
        \o (IF IsSome(url.fragment) THEN << 35 >> \o Get(url.fragment) ELSE << >>)

(***************************************************************************)
(* JavaScript values and JSON                                              *)
(*                                                                         *)
(* A value is a record [t, v]: t is its type and v a sequence holding its  *)
(* content (the code units of a string, the number of a number, the        *)
(* << key, value >> pairs of an object in insertion order, the elements of *)
(* an array).  Numbers are integers.                                       *)
(***************************************************************************)

JsUndefined == [t |-> "undefined", v |-> << >>]
JsNull == [t |-> "null", v |-> << >>]
JsBool(b) == [t |-> "boolean", v |-> << b >>]
JsNumber(n) == [t |-> "number", v |-> << n >>]
JsString(s) == [t |-> "string", v |-> s]
JsArray(elems) == [t |-> "array", v |-> elems]
JsObject(pairs) == [t |-> "object", v |-> pairs]

\* "\uXXXX" for a code unit.
UnicodeEscape(c) ==
    << 92, 117, HexDigits[(c \div 4096) + 1], HexDigits[((c \div 256) % 16) + 1],
       HexDigits[((c \div 16) % 16) + 1], HexDigits[(c % 16) + 1] >>

\* The characters of a string between the quotes of its JSON text.
RECURSIVE JsonQuoteChars(_)
JsonQuoteChars(s) ==
    IF Len(s) = 0 THEN << >>
    ELSE
        LET c == s[1]
            out == IF c = 34 THEN << 92, 34 >>
                   ELSE IF c = 92 THEN << 92, 92 >>
                   ELSE IF c = 8 THEN << 92, 98 >>
                   ELSE IF c = 9 THEN << 92, 116 >>
                   ELSE IF c = 10 THEN << 92, 110 >>
                   ELSE IF c = 12 THEN << 92, 102 >>
                   ELSE IF c = 13 THEN << 92, 114 >>
                   ELSE IF c < 32 THEN UnicodeEscape(c)
                   ELSE IF (IsHighSurrogate(c) /\ ~(Len(s) >= 2 /\ IsLowSurrogate(s[2])))
                           \/ IsLowSurrogate(c)
                       THEN UnicodeEscape(c)
                   ELSE IF IsHighSurrogate(c) THEN << c, s[2] >>
                   ELSE << c >>
            used == IF IsHighSurrogate(c) /\ Len(s) >= 2 /\ IsLowSurrogate(s[2])
                    THEN 2 ELSE 1
        IN  out \o JsonQuoteChars(Drop(s, used))

JsonQuote(s) == << 34 >> \o JsonQuoteChars(s) \o << 34 >>

\* JSON.stringify(x) for a value x other than undefined: a property whose
\* value is undefined is left out of an object, an undefined element of an
\* array is written null.
RECURSIVE JsonStringify(_)
RECURSIVE JsonMembers(_, _)
RECURSIVE JsonElements(_)
JsonStringify(x) ==
    IF x.t = "null" THEN S(<< "n", "u", "l", "l" >>)
    ELSE IF x.t = "undefined" THEN S(<< "n", "u", "l", "l" >>)
    ELSE IF x.t = "boolean" THEN
        (IF x.v[1] THEN S(<< "t", "r", "u", "e" >>) ELSE S(<< "f", "a", "l", "s", "e" >>))
    ELSE IF x.t = "number" THEN NumberToString(x.v[1])
    ELSE IF x.t = "string" THEN JsonQuote(x.v)
    ELSE IF x.t = "array" THEN << 91 >> \o JsonElements(x.v) \o << 93 >>
    ELSE << 123 >> \o JsonMembers(x.v, TRUE) \o << 125 >>

JsonMembers(pairs, first) ==
    IF Len(pairs) = 0 THEN << >>
    ELSE IF pairs[1][2].t = "undefined" THEN JsonMembers(Tail(pairs), first)
    ELSE (IF first THEN << >> ELSE << 44 >>)
             \o JsonQuote(pairs[1][1]) \o << 58 >> \o JsonStringify(pairs[1][2])
             \o JsonMembers(Tail(pairs), FALSE)

JsonElements(elems) ==
    IF Len(elems) = 0 THEN << >>
    ELSE JsonStringify(elems[1])
             \o (IF Len(elems) = 1 THEN << >> ELSE << 44 >> \o JsonElements(Tail(elems)))

\* The result of a parsing step: ok, the value read and the position after
\* it.
ParseFail == [ok |-> FALSE, v |-> JsUndefined, next |-> 0]
ParseOk(value, next) == [ok |-> TRUE, v |-> value, next |-> next]

RECURSIVE SkipWs(_, _)
SkipWs(s, i) ==
    IF i <= Len(s) /\ s[i] \in {32, 9, 10, 13} THEN SkipWs(s, i + 1) ELSE i

\* The first position at or after i that holds no digit.
RECURSIVE DigitsEnd(_, _)
DigitsEnd(s, i) == IF i <= Len(s) /\ IsDigit(s[i]) THEN DigitsEnd(s, i + 1) ELSE i

RECURSIVE DigitsValue(_, _)
DigitsValue(s, acc) ==
    IF Len(s) = 0 THEN acc ELSE DigitsValue(Tail(s), (acc * 10) + (s[1] - 48))

\* A JSON number starting at position i (an integer: "-"? digits, a leading
\* "0" standing alone).
ParseNumber(s, i) ==
    LET neg == s[i] = 45
        k == IF neg THEN i + 1 ELSE i
        e == IF k <= Len(s) /\ s[k] = 48 THEN k + 1 ELSE DigitsEnd(s, k)
        n == DigitsValue(SubSeq(s, k, e - 1), 0)
    IN  IF e = k \/ (e <= Len(s) /\ s[e] \in {46, 69, 101}) THEN ParseFail
        ELSE ParseOk(JsNumber(IF neg THEN 0 - n ELSE n), e)

\* The literal word lit (true, false, null) at position i.
ParseLiteral(s, i, lit, value) ==
    IF i + Len(lit) - 1 <= Len(s) /\ SubSeq(s, i, i + Len(lit) - 1) = lit
    THEN ParseOk(value, i + Len(lit))
    ELSE ParseFail

\* The characters of a JSON string from position i, after its opening quote.
RECURSIVE ParseString(_, _, _)
ParseString(s, i, acc) ==
    IF i > Len(s) THEN ParseFail
    ELSE IF s[i] = 34 THEN ParseOk(JsString(acc), i + 1)
    ELSE IF s[i] < 32 THEN ParseFail
    ELSE IF s[i] # 92 THEN ParseString(s, i + 1, Append(acc, s[i]))
    ELSE IF i + 1 > Len(s) THEN ParseFail
    ELSE
        LET e == s[i + 1]
        IN  IF e \in {34, 92, 47} THEN ParseString(s, i + 2, Append(acc, e))
            ELSE IF e = 98 THEN ParseString(s, i + 2, Append(acc, 8))
            ELSE IF e = 116 THEN ParseString(s, i + 2, Append(acc, 9))
            ELSE IF e = 110 THEN ParseString(s, i + 2, Append(acc, 10))
            ELSE IF e = 102 THEN ParseString(s, i + 2, Append(acc, 12))
            ELSE IF e = 114 THEN ParseString(s, i + 2, Append(acc, 13))
            ELSE IF e = 117 /\ i + 5 <= Len(s)
                    /\ \A k \in 2..5 : HexValue(s[i + k]) >= 0 THEN
                ParseString(s, i + 6,
                    Append(acc, (HexValue(s[i + 2]) * 4096) + (HexValue(s[i + 3]) * 256)
                                    + (HexValue(s[i + 4]) * 16) + HexValue(s[i + 5])))
            ELSE ParseFail

\* An object's pairs with key bound to value: a key met again keeps its
\* place and takes the later value.
WithMember(pairs, key, value) ==
    IF \E i \in 1..Len(pairs) : pairs[i][1] = key
    THEN [i \in 1..Len(pairs) |->
              IF pairs[i][1] = key THEN << key, value >> ELSE pairs[i]]
    ELSE Append(pairs, << key, value >>)

RECURSIVE ParseValue(_, _)
RECURSIVE ParseElements(_, _, _, _)
RECURSIVE ParseMembers(_, _, _, _)

\* The JSON value starting at or after position i.
ParseValue(s, i) ==
    LET j == SkipWs(s, i)
    IN  IF j > Len(s) THEN ParseFail
        ELSE IF s[j] = 123 THEN ParseMembers(s, j + 1, << >>, TRUE)
        ELSE IF s[j] = 91 THEN ParseElements(s, j + 1, << >>, TRUE)
        ELSE IF s[j] = 34 THEN ParseString(s, j + 1, << >>)
        ELSE IF s[j] = 116 THEN
            ParseLiteral(s, j, S(<< "t", "r", "u", "e" >>), JsBool(TRUE))
        ELSE IF s[j] = 102 THEN
            ParseLiteral(s, j, S(<< "f", "a", "l", "s", "e" >>), JsBool(FALSE))
        ELSE IF s[j] = 110 THEN
            ParseLiteral(s, j, S(<< "n", "u", "l", "l" >>), JsNull)
        ELSE IF s[j] = 45 \/ IsDigit(s[j]) THEN ParseNumber(s, j)
        ELSE ParseFail

\* The elements of an array from position i, after "[" or ",".
ParseElements(s, i, acc, first) ==
    LET j == SkipWs(s, i)
    IN  IF j > Len(s) THEN ParseFail
        ELSE IF first /\ s[j] = 93 THEN ParseOk(JsArray(acc), j + 1)
        ELSE
            LET r == ParseValue(s, j)
                k == SkipWs(s, r.next)
            IN  IF ~r.ok \/ k > Len(s) THEN ParseFail
                ELSE IF s[k] = 44 THEN ParseElements(s, k + 1, Append(acc, r.v), FALSE)
                ELSE IF s[k] = 93 THEN ParseOk(JsArray(Append(acc, r.v)), k + 1)
                ELSE ParseFail

\* The members of an object from position i, after "{" or ",".
ParseMembers(s, i, acc, first) ==
    LET j == SkipWs(s, i)
    IN  IF j > Len(s) THEN ParseFail
        ELSE IF first /\ s[j] = 125 THEN ParseOk(JsObject(acc), j + 1)
        ELSE IF s[j] # 34 THEN ParseFail
        ELSE
            LET key == ParseString(s, j + 1, << >>)
                c == SkipWs(s, key.next)
            IN  IF ~key.ok \/ c > Len(s) \/ s[c] # 58 THEN ParseFail
                ELSE
                    LET r == ParseValue(s, c + 1)
                        k == SkipWs(s, r.next)
                        members == WithMember(acc, key.v.v, r.v)
                    IN  IF ~r.ok \/ k > Len(s) THEN ParseFail
                        ELSE IF s[k] = 44 THEN ParseMembers(s, k + 1, members, FALSE)
                        ELSE IF s[k] = 125 THEN ParseOk(JsObject(members), k + 1)
                        ELSE ParseFail

\* The response bodies of the model that are not empty: a JSON object and
\* text that is not JSON.
JsonBody ==
    S(<< "{", "QUOTE", "e", "r", "r", "o", "r", "QUOTE", ":", "QUOTE", "N", "o",
         "t", " ", "f", "o", "u", "n", "d", "QUOTE", "}" >>)
TextBody ==
    S(<< "p", "l", "a", "i", "n", " ", "t", "e", "x", "t", " ", "e", "r",
         "r", "o", "r" >>)

\* The parse of the response bodies, which every state of a call reads
\* again, computed once.
ParsedBodies == [text \in {JsonBody, TextBody} |-> ParseValue(text, 1)]

ParseText(text) ==
    IF text \in DOMAIN ParsedBodies THEN ParsedBodies[text] ELSE ParseValue(text, 1)

\* JSON.parse(text): it throws SyntaxError unless the text is one JSON value
\* with nothing but white space around it.
JsonValid(text) ==
    LET r == ParseText(text)
    IN  r.ok /\ SkipWs(text, r.next) > Len(text)

JsonParse(text) == ParseText(text).v

(***************************************************************************)
(* Errors                                                                  *)
(***************************************************************************)

TokenRequired ==
    S(<< "t", "o", "k", "e", "n", " ", "i", "s", " ", "r", "e", "q", "u",
         "i", "r", "e", "d" >>)

SecretRequired ==
    S(<< "s", "e", "c", "r", "e", "t", " ", "i", "s", " ", "r", "e", "q",
         "u", "i", "r", "e", "d" >>)

InvalidCharacter ==
    S(<< "I", "n", "v", "a", "l", "i", "d", " ", "c", "h", "a", "r", "a",
         "c", "t", "e", "r" >>)

InvalidURL ==
    S(<< "I", "n", "v", "a", "l", "i", "d", " ", "U", "R", "L" >>)

URIMalformed ==
    S(<< "U", "R", "I", " ", "m", "a", "l", "f", "o", "r", "m", "e", "d" >>)

BodyUnusable ==
    S(<< "B", "o", "d", "y", " ", "i", "s", " ", "u", "n", "u", "s", "a",
         "b", "l", "e" >>)

BodyTerminated ==
    S(<< "t", "e", "r", "m", "i", "n", "a", "t", "e", "d" >>)

UnexpectedToken ==
    S(<< "U", "n", "e", "x", "p", "e", "c", "t", "e", "d", " ", "t", "o",
         "k", "e", "n" >>)

FetchFailed ==
    S(<< "f", "e", "t", "c", "h", " ", "f", "a", "i", "l", "e", "d" >>)

SocketHangUp ==
    S(<< "s", "o", "c", "k", "e", "t", " ", "h", "a", "n", "g", " ", "u",
         "p" >>)

ApiErrorPrefix ==
    S(<< "D", "o", "m", "e", "n", "e", "s", "h", "o", "p", " ", "A", "P",
         "I", " ", "e", "r", "r", "o", "r", ":", " " >>)

\* An error that is not a DomeneshopError: no status, no body.
PlainError(name, message) ==
    [name |-> name, message |-> message, status |-> None, body |-> JsUndefined]

\* new DomeneshopError(message, status, body)
DomeneshopError(message, status, body) ==
    [name |-> "DomeneshopError", message |-> message, status |-> Some(status),
     body |-> body]

(***************************************************************************)
(* The client: constructor                                                 *)
(***************************************************************************)

DEFAULT_BASE_URL ==
    S(<< "h", "t", "t", "p", "s", ":", "/", "/", "a", "p", "i", ".", "d",
         "o", "m", "e", "n", "e", "s", "h", "o", "p", ".", "n", "o", "/",
         "v", "0" >>)

BasicPrefix ==
    S(<< "B", "a", "s", "i", "c", " " >>)

ApplicationJson ==
    S(<< "a", "p", "p", "l", "i", "c", "a", "t", "i", "o", "n", "/", "j",
         "s", "o", "n" >>)

\* !x for an optional string x: undefined and the empty string are falsy.
Falsy(x) == ~IsSome(x) \/ Len(Get(x)) = 0

\* Credentials with the two fields in the wrong order.
CredentialsSwapped(options) == Get(options.secret) \o << 58 >> \o Get(options.token)

\* `${options.token}:${options.secret}`
Credentials(options) == Get(options.token) \o << 58 >> \o Get(options.secret)

\* The constructor checking for undefined where it should check for a
\* falsy value: an empty string passes.
ConstructorThrowsUndefinedOnly(options) ==
    IF ~IsSome(options.token) THEN Some(PlainError("Error", TokenRequired))
    ELSE IF ~IsSome(options.secret) THEN Some(PlainError("Error", SecretRequired))
    ELSE IF ~BtoaOk(Credentials(options))
        THEN Some(PlainError("InvalidCharacterError", InvalidCharacter))
    ELSE None

\* The error the constructor throws for these options, None when it
\* returns: the two checks, in order, then btoa.
ConstructorThrows(options) ==
    IF Falsy(options.token) THEN Some(PlainError("Error", TokenRequired))
    ELSE IF Falsy(options.secret) THEN Some(PlainError("Error", SecretRequired))
    ELSE IF ~BtoaOk(Credentials(options))
        THEN Some(PlainError("InvalidCharacterError", InvalidCharacter))
    ELSE None

\* The header value the constructor computes.
AuthorizationValue(options) == BasicPrefix \o Btoa(Credentials(options))

\* The client had the constructor ignored the baseUrl option.
NewClientDefaultBase(options) ==
    [ baseUrl |-> DEFAULT_BASE_URL,
      headers |-> [h \in {"Authorization"} |-> AuthorizationValue(options)],
      options |-> options ]

\* The fields of the client the constructor returns; options is kept as a
\* record of what it was constructed with.
NewClient(options) ==
    [ baseUrl |-> IF IsSome(options.baseUrl) THEN Get(options.baseUrl)
                  ELSE DEFAULT_BASE_URL,
      headers |-> [h \in {"Authorization"} |-> AuthorizationValue(options)],
      options |-> options ]

(***************************************************************************)
(* The client: the request pipeline                                        *)
(***************************************************************************)

\* A call's result: pending, resolved with a value, or rejected with an
\* error.
Pending == [kind |-> "pending", value |-> JsUndefined, error |-> None]
Resolved(value) == [kind |-> "resolved", value |-> value, error |-> None]
Rejected(error) == [kind |-> "rejected", value |-> JsUndefined, error |-> Some(error)]

\* The loop without its test for undefined: an absent value is set as the
\* text "undefined".
RECURSIVE SetParamsAll(_, _)
SetParamsAll(url, entries) ==
    IF Len(entries) = 0 THEN url
    ELSE SetParamsAll(
             SearchParamsSet(url, entries[1][1],
                 IF IsSome(entries[1][2]) THEN Get(entries[1][2])
                 ELSE S(<< "u", "n", "d", "e", "f", "i", "n", "e", "d" >>)),
             Tail(entries))

\* for (const [key, value] of Object.entries(options.params)):
\* an entry is << key, value >> with an optional value.
RECURSIVE SetParams(_, _)
SetParams(url, entries) ==
    IF Len(entries) = 0 THEN url
    ELSE IF IsSome(entries[1][2])
        THEN SetParams(SearchParamsSet(url, entries[1][1], Get(entries[1][2])),
                       Tail(entries))
    ELSE SetParams(url, Tail(entries))

\* The headers of one request: a copy of the client's, with Content-Type
\* when the call has a body.
RequestHeaders(own, body) ==
    IF body # JsUndefined
    THEN [h \in DOMAIN own \cup {"Content-Type"} |->
              IF h = "Content-Type" THEN ApplicationJson ELSE own[h]]
    ELSE own

\* The client's own headers had the request's headers been the same object
\* (const headers = this.headers) and not a copy.
ThisHeadersAliased(own, sent) == sent

\* The client's own headers once a request has been built from them: the
\* request's headers are a copy ({ ...this.headers }), so they are what
\* they were.
ThisHeadersAfter(own, sent) == own

\* The body with a default ttl of 3600 put in when the caller gave none.
RequestBodyDefaultTtl(body) ==
    IF body = JsUndefined THEN None
    ELSE IF body.t = "object"
            /\ ~\E i \in 1..Len(body.v) :
                   body.v[i][1] = S(<< "t", "t", "l" >>) /\ body.v[i][2].t = "number"
        THEN Some(JsonStringify(
                 JsObject(Append(body.v, << S(<< "t", "t", "l" >>), JsNumber(3600) >>))))
    ELSE Some(JsonStringify(body))

\* The part of fetch's second argument that carries the body.
RequestBody(body) ==
    IF body # JsUndefined THEN Some(JsonStringify(body)) ELSE None

\* request had it awaited something (a lookup of the credentials, a rate
\* limiter) before it calls fetch: the method returns its promise with no
\* request handed over.
requestDeferred(client, method, path, options) ==
    [ pc |-> "awaitFetch", req |-> None, result |-> Pending,
      headers |-> client.headers ]

\* request(method, path, options) on a client, up to its first suspension:
\* new URL throws TypeError (the call is rejected and nothing is sent), or
\* fetch is called with the request and the call waits for the response.
\* options is [params, body]: params an optional list of entries, body a
\* value (undefined when there is none).
request(client, method, path, options) ==
    LET s == client.baseUrl \o path
    IN  IF ~UrlOk(s) THEN
            [ pc |-> "settled", req |-> None,
              result |-> Rejected(PlainError("TypeError", InvalidURL)),
              headers |-> client.headers ]
        ELSE
            LET url == SetParams(UrlParse(s),
                                 IF IsSome(options.params) THEN Get(options.params)
                                 ELSE << >>)
                headers == RequestHeaders(client.headers, options.body)
            IN  [ pc |-> "awaitFetch",
                  req |-> Some([ url |-> UrlToString(url), method |-> method,
                                 headers |-> headers,
                                 body |-> RequestBody(options.body) ]),
                  result |-> Pending,
                  headers |-> ThisHeadersAfter(client.headers, headers) ]

\* A call rejected before request is reached.
Thrown(client, error) ==
    [ pc |-> "settled", req |-> None, result |-> Rejected(error),
      headers |-> client.headers ]

NoParams == [params |-> None, body |-> JsUndefined]
WithParams(entries) == [params |-> Some(entries), body |-> JsUndefined]
WithBody(body) == [params |-> None, body |-> body]

\* response.ok had it no upper bound.
OkNoUpperBound(response) == response.status >= 200

\* response.ok
Ok(response) == response.status >= 200 /\ response.status <= 299

\* Reading the body of a response (response.json(), response.text()): the
\* read fails when the body stream fails (body is None), and, for a
\* response whose body can be read once only, when it has been read before.
ReadFails(response, bodyUsed) ==
    (response.oneShot /\ bodyUsed) \/ ~IsSome(response.body)

ReadError(response, bodyUsed) ==
    IF response.oneShot /\ bodyUsed THEN PlainError("TypeError", BodyUnusable)
    ELSE PlainError("TypeError", BodyTerminated)

\* `Domeneshop API error: ${response.status} ${response.statusText}`
ApiErrorMessage(response) ==
    ApiErrorPrefix \o NumberToString(response.status) \o << 32 >> \o response.statusText

\* The error branch reading the body as text where it should decode it.
ErrorJsonAsText(response, bodyUsed) ==
    IF ReadFails(response, bodyUsed) THEN None
    ELSE IF ~JsonValid(Get(response.body)) THEN None
    ELSE Some(JsString(Get(response.body)))

\* await response.json() in the error branch: the decoded body, or None
\* when the promise rejects.
ErrorJson(response, bodyUsed) ==
    IF ReadFails(response, bodyUsed) THEN None
    ELSE IF ~JsonValid(Get(response.body)) THEN None
    ELSE Some(JsonParse(Get(response.body)))

\* The error's body had the inner catch put an empty text in place of a
\* failed read.
ErrorTextEmptyOnFailure(response, bodyUsed) ==
    IF ReadFails(response, bodyUsed) THEN JsString(<< >>)
    ELSE JsString(Get(response.body))

\* await response.text() in the error branch, after json() has rejected:
\* the text as the error's body, or undefined when this promise rejects
\* too.
ErrorText(response, bodyUsed) ==
    IF ReadFails(response, bodyUsed) THEN JsUndefined
    ELSE JsString(Get(response.body))

\* The success branch without its test for an empty text: JSON.parse("")
\* throws.
SuccessResultNoEmptyTest(response, bodyUsed) ==
    IF ReadFails(response, bodyUsed) THEN Rejected(ReadError(response, bodyUsed))
    ELSE IF ~JsonValid(Get(response.body))
        THEN Rejected(PlainError("SyntaxError", UnexpectedToken))
    ELSE Resolved(JsonParse(Get(response.body)))

\* The success branch had it caught the error of JSON.parse and thrown a
\* DomeneshopError with the response's status and the text.
SuccessResultParseErrorAsApiError(response, bodyUsed) ==
    IF ReadFails(response, bodyUsed) THEN Rejected(ReadError(response, bodyUsed))
    ELSE IF Len(Get(response.body)) = 0 THEN Resolved(JsUndefined)
    ELSE IF ~JsonValid(Get(response.body))
        THEN Rejected(DomeneshopError(ApiErrorMessage(response), response.status,
                                      JsString(Get(response.body))))
    ELSE Resolved(JsonParse(Get(response.body)))

\* The result of a call whose response is ok and not 204, once
\* response.text() has settled.
SuccessResult(response, bodyUsed) ==
    IF ReadFails(response, bodyUsed) THEN Rejected(ReadError(response, bodyUsed))
    ELSE IF Len(Get(response.body)) = 0 THEN Resolved(JsUndefined)
    ELSE IF ~JsonValid(Get(response.body))
        THEN Rejected(PlainError("SyntaxError", UnexpectedToken))
    ELSE Resolved(JsonParse(Get(response.body)))

(***************************************************************************)
(* Names: path pieces, query parameter names, property names               *)
(***************************************************************************)

PathDomains == S(<< "/", "d", "o", "m", "a", "i", "n", "s" >>)
PathDns == S(<< "/", "d", "n", "s" >>)
PathForwards == S(<< "/", "f", "o", "r", "w", "a", "r", "d", "s", "/" >>)
PathDyndns ==
    S(<< "/", "d", "y", "n", "d", "n", "s", "/", "u", "p", "d", "a", "t",
         "e" >>)
PathInvoices == S(<< "/", "i", "n", "v", "o", "i", "c", "e", "s" >>)
KeyDomain == S(<< "d", "o", "m", "a", "i", "n" >>)
KeyHost == S(<< "h", "o", "s", "t" >>)
KeyType == S(<< "t", "y", "p", "e" >>)
KeyHostname == S(<< "h", "o", "s", "t", "n", "a", "m", "e" >>)
KeyMyip == S(<< "m", "y", "i", "p" >>)
KeyStatus == S(<< "s", "t", "a", "t", "u", "s" >>)
KeyData == S(<< "d", "a", "t", "a" >>)
KeyTtl == S(<< "t", "t", "l" >>)
KeyPriority == S(<< "p", "r", "i", "o", "r", "i", "t", "y" >>)
KeyFrame == S(<< "f", "r", "a", "m", "e" >>)
KeyUrl == S(<< "u", "r", "l" >>)
KeyError == S(<< "e", "r", "r", "o", "r" >>)

\* obj?.key for an optional list of entries: undefined when the object is
\* undefined or has no such property.
Prop(obj, key) ==
    IF IsSome(obj) /\ \E i \in 1..Len(Get(obj)) : Get(obj)[i][1] = key
    THEN Get(obj)[CHOOSE i \in 1..Len(Get(obj)) : Get(obj)[i][1] = key][2]
    ELSE None

(***************************************************************************)
(* The values the model draws its inputs from                              *)
(***************************************************************************)

\* The number of clients a behaviour constructs at most.
MaxClients == 2

\* The number of calls that can be in flight together.
MaxInFlight == 2

Slots == 1..MaxInFlight

\* Credentials: absent, empty, ASCII, Latin-1 (U+00E9) and beyond Latin-1
\* (U+20AC).
Tokens == { None, Some(<< >>), Some(S(<< "a" >>)), Some(S(<< "t", "o" >>)),
            Some(<< 8364 >>) }
Secrets == { None, Some(<< >>), Some(<< 98, 233 >>), Some(<< 115, 8364 >>) }
BaseUrls ==
    { None, Some(<< >>),
      Some(S(<< "h", "t", "t", "p", "s", ":", "/", "/", "c", "u", "s", "t",
                "o", "m", ".", "a", "p", "i", "/", "v", "0" >>)) }

\* The options a client is constructed with: every token with every
\* secret; the token "a" comes without a base URL or with the empty one,
\* the other tokens with the custom base URL.
ClientOptions ==
    { o \in [token : Tokens, secret : Secrets, baseUrl : BaseUrls] :
          (IsSome(o.baseUrl) /\ o.baseUrl # Some(<< >>))
              <=> o.token # Some(S(<< "a" >>)) }

DomainIds == {0, 1, 999}
RecordIds == {10}
InvoiceIds == {1001}

\* Forward hosts: a name, the root marker, a host with "/", "?" and "#",
\* the dot segments, the empty host, a host beyond ASCII, and a surrogate
\* without its pair.
Hosts == { S(<< "w", "w", "w" >>), S(<< "@" >>),
           S(<< "a", "/", "b", "?", "c", "#", "d" >>),
           S(<< "." >>), S(<< ".", "." >>), << >>, << 233, 8364 >>, << 55357 >> }

\* Values of query parameters: absent, empty, plain, and one with the
\* characters a query string gives a meaning to.
DomainFilters == { None, Some(<< >>), Some(S(<< "e", ".", "n", "o" >>)),
                   Some(S(<< "a", " ", "b", "&", "c", "=", "d", "+" >>)) }
HostFilters == { None, Some(S(<< "w", "w", "w" >>)) }
TypeFilters == { None, Some(S(<< "M", "X" >>)) }
Hostnames == { Some(S(<< "d", ".", "n", "o" >>)), Some(<< >>) }
MyIps == { None, Some(S(<< "1", ".", "2", ".", "3", ".", "4" >>)),
           Some(S(<< "n", "o", " ", "i", "p" >>)) }
StatusFilters == { None, Some(S(<< "u", "n", "p", "a", "i", "d" >>)) }

\* A params argument: undefined, or an object with one of these lists of
\* entries.
ParamsArgs(entryLists) == {None} \cup {Some(e) : e \in entryLists}

\* DNS records to create or update: without ttl, with ttl 600, with a ttl
\* property that is undefined, and an MX record with its priority.
RecordBase ==
    << << KeyHost, JsString(S(<< "t", "e", "s", "t" >>)) >>,
       << KeyType, JsString(S(<< "A" >>)) >>,
       << KeyData, JsString(S(<< "5", ".", "6", ".", "7", ".", "8" >>)) >> >>

Records ==
    { JsObject(RecordBase),
      JsObject(Append(RecordBase, << KeyTtl, JsNumber(600) >>)),
      JsObject(<< << KeyTtl, JsUndefined >> >> \o RecordBase),
      JsObject(<< << KeyHost, JsString(S(<< "@" >>)) >>,
                  << KeyTtl, JsNumber(3600) >>,
                  << KeyType, JsString(S(<< "M", "X" >>)) >>,
                  << KeyData, JsString(S(<< "m", ".", "n", "o" >>)) >>,
                  << KeyPriority, JsNumber(10) >> >>) }

\* Forwards to create or update: one for the host www, and one for the
\* root whose url has no scheme.
Forwards ==
    { JsObject(<< << KeyHost, JsString(S(<< "w", "w", "w" >>)) >>,
                  << KeyFrame, JsBool(FALSE) >>,
                  << KeyUrl, JsString(S(<< "h", "t", "t", "p", "s", ":", "/", "/",
                                          "e", ".", "c", "o", "m" >>)) >> >>),
      JsObject(<< << KeyHost, JsString(S(<< "@" >>)) >>,
                  << KeyFrame, JsBool(TRUE) >>,
                  << KeyUrl, JsString(S(<< "e", ".", "c", "o", "m" >>)) >> >>) }

\* The value of JsonBody.
JsonBodyValue ==
    JsObject(<< << KeyError,
                   JsString(S(<< "N", "o", "t", " ", "f", "o", "u", "n", "d" >>)) >> >>)

\* Response bodies: a JSON object, text that is not JSON, no body, and
\* (None) a body whose stream fails when it is read.
Bodies == { Some(JsonBody), Some(TextBody), Some(<< >>), None }

\* Statuses with their status texts.
StatusLines ==
    { << 200, S(<< "O", "K" >>) >>,
      << 204, S(<< "N", "o", " ", "C", "o", "n", "t", "e", "n", "t" >>) >>,
      << 404, S(<< "N", "o", "t", " ", "F", "o", "u", "n", "d" >>) >>,
      << 500, S(<< "E", "r", "r", "o", "r" >>) >> }

\* The responses fetch can resolve with. oneShot tells whether the body can
\* be read once only (a Response of the Fetch standard) or any number of
\* times (an object with independent json and text methods).
Responses ==
    { [status |-> l[1], statusText |-> l[2], body |-> b, oneShot |-> o] :
          l \in StatusLines, b \in Bodies, o \in BOOLEAN }

\* The errors fetch can reject with.
TransportErrors ==
    { PlainError("TypeError", FetchFailed), PlainError("Error", SocketHangUp) }

(***************************************************************************)
(* State                                                                   *)
(***************************************************************************)

VARIABLES
    clients,    \* the clients constructed so far, in order of construction
    calls,      \* for each slot, the call it holds
    construction \* the outcome of the constructor, when the caller's last
                \* step was a construction

vars == << clients, calls, construction >>

NoArgs == [ids |-> << >>, host |-> None, params |-> None, body |-> JsUndefined]

\* A slot that holds no call.
\* fetches counts the calls of fetch the call has made, transport is the
\* error fetch rejected with, and reads lists the reads of the response's
\* body the call has awaited ("json", "text"), in order.
IdleCall ==
    [ pc |-> "idle", client |-> 0, op |-> "none", args |-> NoArgs, req |-> None,
      fetches |-> 0, transport |-> None, resp |-> None, reads |-> << >>,
      bodyUsed |-> FALSE, result |-> Pending ]

NoConstruction == None

Init ==
    /\ clients = << >>
    /\ calls = [s \in Slots |-> IdleCall]
    /\ construction = NoConstruction

\* The caller runs no call: it can construct a client or start a call.
CallerReady == \A s \in Slots : calls[s].pc = "idle"

\* The slot a new call takes.
FreeSlot(s) ==
    /\ calls[s].pc = "idle"
    /\ \A r \in Slots : r < s => calls[r].pc # "idle"

(***************************************************************************)
(* new DomeneshopClient(options)                                           *)
(***************************************************************************)

constructor(options) ==
    /\ Len(clients) < MaxClients
    /\ LET thrown == ConstructorThrows(options)
       IN  /\ construction' = Some([options |-> options, thrown |-> thrown])
           /\ clients' = IF IsSome(thrown) THEN clients
                         ELSE Append(clients, NewClient(options))
    /\ UNCHANGED calls

(***************************************************************************)
(* The endpoint methods.  Each starts a call on client c in slot s: the    *)
(* method runs up to the first suspension of request.                      *)
(***************************************************************************)

\* The clients had the headers been one object shared by every instance (a
\* static or module-level field).
ClientsAfterShared(cs, c, headers) ==
    [i \in 1..Len(cs) |-> [cs[i] EXCEPT !.headers = headers]]

\* The clients once client c has built a request: headers is a field of
\* the instance (private readonly headers), so only client c holds what
\* the call left in it.
ClientsAfter(cs, c, headers) == [cs EXCEPT ![c].headers = headers]

Start(s, c, op, args, started) ==
    /\ c \in 1..Len(clients)
    /\ FreeSlot(s)
    /\ calls' = [calls EXCEPT ![s] =
                     [ pc |-> started.pc, client |-> c, op |-> op, args |-> args,
                       req |-> started.req,
                       fetches |-> IF IsSome(started.req) THEN 1 ELSE 0,
                       transport |-> None, resp |-> None, reads |-> << >>,
                       bodyUsed |-> FALSE, result |-> started.result ]]
    /\ clients' = ClientsAfter(clients, c, started.headers)
    /\ construction' = NoConstruction

DomainPath(domainId) == PathDomains \o << 47 >> \o NumberToString(domainId)

listDomains(s, c, params) ==
    Start(s, c, "listDomains", [NoArgs EXCEPT !.params = params],
          request(clients[c], "GET", PathDomains,
                  WithParams(<< << KeyDomain, Prop(params, KeyDomain) >> >>)))

getDomain(s, c, domainId) ==
    Start(s, c, "getDomain", [NoArgs EXCEPT !.ids = << domainId >>],
          request(clients[c], "GET", DomainPath(domainId), NoParams))

listDnsRecords(s, c, domainId, params) ==
    Start(s, c, "listDnsRecords",
          [NoArgs EXCEPT !.ids = << domainId >>, !.params = params],
          request(clients[c], "GET", DomainPath(domainId) \o PathDns,
                  WithParams(<< << KeyHost, Prop(params, KeyHost) >>,
                                << KeyType, Prop(params, KeyType) >> >>)))

createDnsRecord(s, c, domainId, record) ==
    Start(s, c, "createDnsRecord",
          [NoArgs EXCEPT !.ids = << domainId >>, !.body = record],
          request(clients[c], "POST", DomainPath(domainId) \o PathDns,
                  WithBody(record)))

RecordPath(domainId, recordId) ==
    DomainPath(domainId) \o PathDns \o << 47 >> \o NumberToString(recordId)

getDnsRecord(s, c, domainId, recordId) ==
    Start(s, c, "getDnsRecord", [NoArgs EXCEPT !.ids = << domainId, recordId >>],
          request(clients[c], "GET", RecordPath(domainId, recordId), NoParams))

updateDnsRecord(s, c, domainId, recordId, record) ==
    Start(s, c, "updateDnsRecord",
          [NoArgs EXCEPT !.ids = << domainId, recordId >>, !.body = record],
          request(clients[c], "PUT", RecordPath(domainId, recordId),
                  WithBody(record)))

deleteDnsRecord(s, c, domainId, recordId) ==
    Start(s, c, "deleteDnsRecord",
          [NoArgs EXCEPT !.ids = << domainId, recordId >>],
          request(clients[c], "DELETE", RecordPath(domainId, recordId), NoParams))

updateDynDns(s, c, params) ==
    Start(s, c, "updateDynDns", [NoArgs EXCEPT !.params = params],
          request(clients[c], "GET", PathDyndns,
                  WithParams(<< << KeyHostname, Prop(params, KeyHostname) >>,
                                << KeyMyip, Prop(params, KeyMyip) >> >>)))

listForwards(s, c, domainId) ==
    Start(s, c, "listForwards", [NoArgs EXCEPT !.ids = << domainId >>],
          request(clients[c], "GET", DomainPath(domainId) \o PathForwards,
                  NoParams))

createForward(s, c, domainId, forward) ==
    Start(s, c, "createForward",
          [NoArgs EXCEPT !.ids = << domainId >>, !.body = forward],
          request(clients[c], "POST", DomainPath(domainId) \o PathForwards,
                  WithBody(forward)))

\* `/domains/${domainId}/forwards/${encodeURIComponent(host)}`
ForwardPath(domainId, host) ==
    DomainPath(domainId) \o PathForwards \o EncodeURIComponent(host)

\* A request to a forward's own path had updateForward refused a forward
\* whose host is not the host of the path, as an earlier client did.
ForwardRequestGuarded(client, method, domainId, host, options) ==
    IF ~UriComponentOk(host)
    THEN Thrown(client, PlainError("URIError", URIMalformed))
    ELSE IF /\ options.body # JsUndefined
            /\ \E i \in 1..Len(options.body.v) :
                   /\ options.body.v[i][1] = S(<< "h", "o", "s", "t" >>)
                   /\ options.body.v[i][2] # JsString(host)
        THEN Thrown(client, PlainError("Error", S(<< "h", "o", "s", "t" >>)))
    ELSE request(client, method,
                 PathDomains \o << 47 >> \o NumberToString(domainId)
                     \o PathForwards \o EncodeURIComponent(host),
                 options)

\* A request to a forward's own path: encodeURIComponent throws URIError
\* before request is called when the host has a surrogate without its pair.
ForwardRequest(client, method, domainId, host, options) ==
    IF ~UriComponentOk(host)
    THEN Thrown(client, PlainError("URIError", URIMalformed))
    ELSE request(client, method, ForwardPath(domainId, host), options)

getForward(s, c, domainId, host) ==
    Start(s, c, "getForward",
          [NoArgs EXCEPT !.ids = << domainId >>, !.host = Some(host)],
          ForwardRequest(clients[c], "GET", domainId, host, NoParams))

updateForward(s, c, domainId, host, forward) ==
    Start(s, c, "updateForward",
          [NoArgs EXCEPT !.ids = << domainId >>, !.host = Some(host),
                         !.body = forward],
          ForwardRequest(clients[c], "PUT", domainId, host, WithBody(forward)))

deleteForward(s, c, domainId, host) ==
    Start(s, c, "deleteForward",
          [NoArgs EXCEPT !.ids = << domainId >>, !.host = Some(host)],
          ForwardRequest(clients[c], "DELETE", domainId, host, NoParams))

listInvoices(s, c, params) ==
    Start(s, c, "listInvoices", [NoArgs EXCEPT !.params = params],
          request(clients[c], "GET", PathInvoices,
                  WithParams(<< << KeyStatus, Prop(params, KeyStatus) >> >>)))

getInvoice(s, c, invoiceId) ==
    Start(s, c, "getInvoice", [NoArgs EXCEPT !.ids = << invoiceId >>],
          request(clients[c], "GET",
                  PathInvoices \o << 47 >> \o NumberToString(invoiceId), NoParams))

(***************************************************************************)
(* The request pipeline after fetch has been called: one action for each   *)
(* promise the call waits for.                                             *)
(***************************************************************************)

Settle(s, result) ==
    calls' = [calls EXCEPT ![s].pc = "settled", ![s].result = result]

\* fetch resolves with a response. A response that is not ok has its body
\* read with json(); a 204 resolves the call at once; any other has its
\* body read with text().
FetchResolve(s, response) ==
    /\ calls[s].pc = "awaitFetch"
    /\ IF ~Ok(response) THEN
           calls' = [calls EXCEPT ![s].pc = "awaitErrorJson",
                                  ![s].resp = Some(response),
                                  ![s].reads = << "json" >>]
       ELSE IF response.status = 204 THEN
           calls' = [calls EXCEPT ![s].pc = "settled",
                                  ![s].resp = Some(response),
                                  ![s].result = Resolved(JsUndefined)]
       ELSE
           calls' = [calls EXCEPT ![s].pc = "awaitText",
                                  ![s].resp = Some(response),
                                  ![s].reads = << "text" >>]
    /\ UNCHANGED << clients, construction >>

\* The call had request caught the error of fetch and thrown its own.
FetchRejectedWrapped(call, error) ==
    [call EXCEPT !.pc = "settled", !.transport = Some(error),
                 !.result = Rejected(DomeneshopError(error.message, 0, JsUndefined))]

\* The call had request called fetch once more after a first failure.
FetchRejectedRetried(call, error) ==
    IF call.fetches < 2
    THEN [call EXCEPT !.fetches = @ + 1]
    ELSE [call EXCEPT !.pc = "settled", !.transport = Some(error),
                      !.result = Rejected(error)]

\* The call once fetch has rejected: await fetch(...) stands in no try
\* block, so the error leaves request as it came.
FetchRejected(call, error) ==
    [call EXCEPT !.pc = "settled", !.transport = Some(error),
                 !.result = Rejected(error)]

\* fetch rejects: the await throws the error out of request.
FetchReject(s, error) ==
    /\ calls[s].pc = "awaitFetch"
    /\ calls' = [calls EXCEPT ![s] = FetchRejected(calls[s], error)]
    /\ UNCHANGED << clients, construction >>

\* response.json() settles in the error branch: with a value, the call
\* throws the DomeneshopError; rejected, the body is read with text().
ErrorJsonSettle(s) ==
    /\ calls[s].pc = "awaitErrorJson"
    /\ LET response == Get(calls[s].resp)
           decoded == ErrorJson(response, calls[s].bodyUsed)
       IN  IF IsSome(decoded) THEN
               calls' = [calls EXCEPT
                   ![s].pc = "settled",
                   ![s].bodyUsed = TRUE,
                   ![s].result = Rejected(DomeneshopError(ApiErrorMessage(response),
                                              response.status, Get(decoded)))]
           ELSE
               calls' = [calls EXCEPT ![s].pc = "awaitErrorText",
                                      ![s].bodyUsed = TRUE,
                                      ![s].reads = << "json", "text" >>]
    /\ UNCHANGED << clients, construction >>

\* response.text() settles in the error branch: the call throws the
\* DomeneshopError, with the text or with no body.
ErrorTextSettle(s) ==
    /\ calls[s].pc = "awaitErrorText"
    /\ LET response == Get(calls[s].resp)
       IN  Settle(s, Rejected(DomeneshopError(ApiErrorMessage(response),
                         response.status, ErrorText(response, calls[s].bodyUsed))))
    /\ UNCHANGED << clients, construction >>

\* response.text() settles in the success branch.
TextSettle(s) ==
    /\ calls[s].pc = "awaitText"
    /\ calls' = [calls EXCEPT
           ![s].pc = "settled",
           ![s].bodyUsed = TRUE,
           ![s].result = SuccessResult(Get(calls[s].resp), calls[s].bodyUsed)]
    /\ UNCHANGED << clients, construction >>

\* The caller takes the result of a settled call.
Return(s) ==
    /\ calls[s].pc = "settled"
    /\ calls' = [calls EXCEPT ![s] = IdleCall]
    /\ UNCHANGED << clients, construction >>

(***************************************************************************)
(* Specification: a caller that constructs clients and runs one call at a  *)
(* time                                                                    *)
(***************************************************************************)

DomainParams == ParamsArgs({ << << KeyDomain, d >> >> : d \in DomainFilters })
DnsParams ==
    ParamsArgs({ << << KeyHost, h >>, << KeyType, t >> >> :
                     h \in HostFilters, t \in TypeFilters })
DynDnsParams ==
    { Some(<< << KeyHostname, h >>, << KeyMyip, ip >> >>) :
          h \in Hostnames, ip \in MyIps }
InvoiceParams == ParamsArgs({ << << KeyStatus, st >> >> : st \in StatusFilters })

Clients == 1..MaxClients

Next ==
    \/ \E options \in ClientOptions : CallerReady /\ constructor(options)
    \/ \E s \in Slots, c \in Clients :
           /\ CallerReady
           /\ \/ \E params \in DomainParams : listDomains(s, c, params)
              \/ \E d \in DomainIds : getDomain(s, c, d)
              \/ \E d \in DomainIds, params \in DnsParams :
                     listDnsRecords(s, c, d, params)
              \/ \E d \in DomainIds, record \in Records :
                     createDnsRecord(s, c, d, record)
              \/ \E d \in DomainIds, r \in RecordIds : getDnsRecord(s, c, d, r)
              \/ \E d \in DomainIds, r \in RecordIds, record \in Records :
                     updateDnsRecord(s, c, d, r, record)
              \/ \E d \in DomainIds, r \in RecordIds : deleteDnsRecord(s, c, d, r)
              \/ \E params \in DynDnsParams : updateDynDns(s, c, params)
              \/ \E d \in DomainIds : listForwards(s, c, d)
              \/ \E d \in DomainIds, forward \in Forwards :
                     createForward(s, c, d, forward)
              \/ \E d \in DomainIds, host \in Hosts : getForward(s, c, d, host)
              \/ \E d \in DomainIds, host \in Hosts, forward \in Forwards :
                     updateForward(s, c, d, host, forward)
              \/ \E d \in DomainIds, host \in Hosts : deleteForward(s, c, d, host)
              \/ \E params \in InvoiceParams : listInvoices(s, c, params)
              \/ \E i \in InvoiceIds : getInvoice(s, c, i)
    \/ \E s \in Slots :
           \/ \E response \in Responses : FetchResolve(s, response)
           \/ \E error \in TransportErrors : FetchReject(s, error)
           \/ ErrorJsonSettle(s)
           \/ ErrorTextSettle(s)
           \/ TextSettle(s)
           \/ Return(s)

Spec == Init /\ [][Next]_vars

(***************************************************************************)
(* Specification: a caller that does not wait.  It constructs clients and  *)
(* starts calls while other calls are in flight, on the same client or on  *)
(* another, and the promises settle in any order.                          *)
(***************************************************************************)

\* Two sets of options with different credentials and base URLs.
ConcurrentOptions ==
    { [token |-> Some(S(<< "a" >>)), secret |-> Some(<< 98, 233 >>),
       baseUrl |-> None],
      [token |-> Some(S(<< "t", "o" >>)), secret |-> Some(<< 98, 233 >>),
       baseUrl |-> Some(S(<< "h", "t", "t", "p", "s", ":", "/", "/", "c", "u",
                             "s", "t", "o", "m", ".", "a", "p", "i", "/", "v",
                             "0" >>))] }

\* The responses of this caller's exchanges: a 200 with a JSON body and a
\* 404 with a text body, each readable once.
ConcurrentResponses ==
    { r \in Responses :
          /\ r.oneShot
          /\ \/ r.status = 200 /\ r.body = Some(JsonBody)
             \/ r.status = 404 /\ r.body = Some(TextBody) }

\* The clients are constructed from the two sets of options in turn, the
\* one without a base URL first.
ConcurrentNext ==
    \/ \E options \in ConcurrentOptions :
           /\ IsSome(options.baseUrl) <=> Len(clients) % 2 = 1
           /\ constructor(options)
    \/ \E s \in Slots, c \in Clients :
           \/ getDomain(s, c, 1)
           \/ createDnsRecord(s, c, 1, JsObject(RecordBase))
           \/ \E host \in { h \in Hosts : ~UriComponentOk(h) } :
                  getForward(s, c, 1, host)
    \/ \E s \in Slots :
           \/ \E response \in ConcurrentResponses : FetchResolve(s, response)
           \/ FetchReject(s, PlainError("TypeError", FetchFailed))
           \/ ErrorJsonSettle(s)
           \/ ErrorTextSettle(s)
           \/ TextSettle(s)
           \/ Return(s)

ConcurrentSpec == Init /\ [][ConcurrentNext]_vars

(***************************************************************************)
(* Specification: a caller that runs getDomain, one call at a time, against *)
(* every response, with the promises of the body reads settling: a read of *)
(* the body of a response that is not ok, once called, resolves or rejects *)
(* in the end.                                                             *)
(***************************************************************************)

FairNext ==
    \/ \E options \in ConcurrentOptions : CallerReady /\ constructor(options)
    \/ \E s \in Slots, c \in Clients, d \in DomainIds :
           CallerReady /\ getDomain(s, c, d)
    \/ \E s \in Slots :
           \/ \E response \in Responses : FetchResolve(s, response)
           \/ \E error \in TransportErrors : FetchReject(s, error)
           \/ ErrorJsonSettle(s)
           \/ ErrorTextSettle(s)
           \/ TextSettle(s)
           \/ Return(s)

FairSpec ==
    /\ Init
    /\ [][FairNext]_vars
    /\ \A s \in Slots : WF_vars(ErrorJsonSettle(s)) /\ WF_vars(ErrorTextSettle(s))

(***************************************************************************)
(* Properties                                                              *)
(***************************************************************************)

\* The slots that hold a call whose request has been handed to fetch.
Sent == { s \in Slots : IsSome(calls[s].req) }

\* The slots that hold a settled call that got a response.
Answered == { s \in Slots : calls[s].pc = "settled" /\ IsSome(calls[s].resp) }

RequestOf(s) == Get(calls[s].req)
ResponseOf(s) == Get(calls[s].resp)
ErrorOf(s) == Get(calls[s].result.error)
OptionsOf(s) == clients[calls[s].client].options

BodyOps == {"createDnsRecord", "updateDnsRecord", "createForward", "updateForward"}
ForwardOps == {"getForward", "updateForward", "deleteForward"}
QueryOps == {"listDomains", "listDnsRecords", "updateDynDns", "listInvoices"}

\* C1: every request a client issues carries the Authorization header
\* "Basic " followed by the base64 text of "token:secret" of the options the
\* client was constructed with (the text decodes back to "token:secret"),
\* and no step changes the Authorization header a client holds.
C1_AuthorizationOfRequest(s) ==
    LET value == RequestOf(s).headers["Authorization"]
        expected == Get(OptionsOf(s).token) \o << 58 >> \o Get(OptionsOf(s).secret)
    IN  /\ value = clients[calls[s].client].headers["Authorization"]
        /\ StartsWith(value, BasicPrefix)
        /\ Drop(value, Len(BasicPrefix)) = Base64(expected)
        /\ Atob(Drop(value, Len(BasicPrefix))) = expected

C1_BasicAuthHeader ==
    /\ [](\A s \in Sent : C1_AuthorizationOfRequest(s))
    /\ [][\A c \in 1..Len(clients) :
              clients'[c].headers["Authorization"] = clients[c].headers["Authorization"]]_vars

\* C1 witness: a request is in flight on a client whose credentials need
\* padding and a Latin-1 byte.
C1_Witness ==
    \E s \in Sent :
        /\ calls[s].pc = "awaitFetch"
        /\ OptionsOf(s).token = Some(S(<< "a" >>))
        /\ RequestOf(s).headers["Authorization"]
               = BasicPrefix \o S(<< "Y", "T", "p", "i", "6", "Q", "=", "=" >>)

\* C2: a request carries Content-Type, with the value application/json,
\* exactly when the call has a body; the methods without a body never carry
\* it and the four methods with a body always do, whatever calls came
\* before on the client.
C2_ContentTypeOfRequest(s) ==
    LET headers == RequestOf(s).headers
        has == "Content-Type" \in DOMAIN headers
    IN  /\ has <=> IsSome(RequestOf(s).body)
        /\ has <=> calls[s].args.body # JsUndefined
        /\ has <=> calls[s].op \in BodyOps
        /\ has => headers["Content-Type"] = ApplicationJson
        /\ ~has => RequestOf(s).method \in {"GET", "DELETE"}

C2_ContentTypeIffBody == \A s \in Sent : C2_ContentTypeOfRequest(s)

\* C2 witness: a DELETE request without Content-Type has been sent.
C2_Witness ==
    \E s \in Sent :
        /\ calls[s].op = "deleteDnsRecord"
        /\ RequestOf(s).method = "DELETE"
        /\ DOMAIN RequestOf(s).headers = {"Authorization"}

\* C3: a call answered by a response that is not 2xx is rejected with a
\* DomeneshopError whose status is the response's status; when the body is
\* valid JSON the error's body is the decoded body (its JSON text is the
\* body's text, and the body {"error":"Not found"} gives the object with
\* the one property error).
C3_ErrorOfResponse(s) ==
    LET response == ResponseOf(s)
    IN  /\ calls[s].result.kind = "rejected"
        /\ ErrorOf(s).name = "DomeneshopError"
        /\ ErrorOf(s).status = Some(response.status)
        /\ (IsSome(response.body) /\ JsonValid(Get(response.body)))
               => /\ ErrorOf(s).body.t # "undefined"
                  /\ JsonStringify(ErrorOf(s).body) = Get(response.body)
        /\ response.body = Some(JsonBody) => ErrorOf(s).body = JsonBodyValue

C3_ApiErrorStatusAndJsonBody ==
    \A s \in Answered : ~Ok(ResponseOf(s)) => C3_ErrorOfResponse(s)

\* C3 witness: getDomain(999) answered by 404 {"error":"Not found"} is
\* rejected with status 404 and the decoded body.
C3_Witness ==
    \E s \in Answered :
        /\ calls[s].op = "getDomain"
        /\ calls[s].args.ids = << 999 >>
        /\ ResponseOf(s).status = 404
        /\ ResponseOf(s).body = Some(JsonBody)
        /\ ErrorOf(s).status = Some(404)
        /\ ErrorOf(s).body = JsonBodyValue

\* C4 (as claimed): a call answered by a response that is not 2xx and whose
\* body is non-empty text that is not JSON is rejected with a
\* DomeneshopError whose body is that text.
C4_TextBodyOfError ==
    \A s \in Answered :
        LET response == ResponseOf(s)
        IN  (/\ ~Ok(response)
             /\ IsSome(response.body)
             /\ Len(Get(response.body)) > 0
             /\ ~JsonValid(Get(response.body)))
                => /\ calls[s].result.kind = "rejected"
                   /\ ErrorOf(s).name = "DomeneshopError"
                   /\ ErrorOf(s).body = JsString(Get(response.body))

\* C5 (as claimed): a call answered by a response that is not 2xx and has
\* no body (json() rejects and text() yields the empty string) is rejected
\* with a DomeneshopError whose body is undefined.
C5_NoBodyOfError ==
    \A s \in Answered :
        LET response == ResponseOf(s)
        IN  (/\ ~Ok(response)
             /\ response.body = Some(<< >>)
             /\ ~ReadFails(response, TRUE))
                => /\ calls[s].result.kind = "rejected"
                   /\ ErrorOf(s).name = "DomeneshopError"
                   /\ ErrorOf(s).body = JsUndefined

\* C6: a call answered by a 2xx response that is a 204, or whose body is
\* empty, resolves with undefined; for a 204 whatever the body is, also one
\* that is not JSON or cannot be read.
C6_EmptySuccess ==
    \A s \in Answered :
        LET response == ResponseOf(s)
        IN  (Ok(response) /\ (response.status = 204 \/ response.body = Some(<< >>)))
                => calls[s].result = Resolved(JsUndefined)

\* C6 witness: a 204 whose body is text that is not JSON resolved with
\* undefined.
C6_Witness ==
    \E s \in Answered :
        /\ ResponseOf(s).status = 204
        /\ ResponseOf(s).body = Some(TextBody)
        /\ calls[s].result = Resolved(JsUndefined)

\* The query parameters of each of the methods that take some.
OpKeys(op) ==
    IF op = "listDomains" THEN << KeyDomain >>
    ELSE IF op = "listDnsRecords" THEN << KeyHost, KeyType >>
    ELSE IF op = "updateDynDns" THEN << KeyHostname, KeyMyip >>
    ELSE << KeyStatus >>

\* The << key, value >> pairs of the entries that have a value.
RECURSIVE Supplied(_)
Supplied(entries) ==
    IF Len(entries) = 0 THEN << >>
    ELSE IF IsSome(entries[1][2])
        THEN << << entries[1][1], Get(entries[1][2]) >> >> \o Supplied(Tail(entries))
    ELSE Supplied(Tail(entries))

IsPlain(value) == Len(value) > 0 /\ \A i \in 1..Len(value) : FormUnreserved(value[i])

\* C7: in the URL of a request of listDomains, listDnsRecords, updateDynDns
\* or listInvoices, a parameter the caller gave no value has no "key=" at
\* all, and the parameters given a value are the pairs the query string
\* stands for, in order (a value of letters, digits and dots appears as
\* key=value); without any value the URL has no query.
C7_QueryOfRequest(s) ==
    LET url == RequestOf(s).url
        q == FindAny(url, 1, {63})
        params == calls[s].args.params
        pairs == Supplied(IF IsSome(params) THEN Get(params) ELSE << >>)
        keys == OpKeys(calls[s].op)
    IN  /\ pairs = << >> => q > Len(url)
        /\ pairs # << >> => q <= Len(url) /\ FormParse(Drop(url, q)) = pairs
        /\ \A i \in 1..Len(keys) :
               ~IsSome(Prop(params, keys[i]))
                   => ~Contains(url, keys[i] \o << 61 >>)
        /\ \A i \in 1..Len(pairs) :
               IsPlain(pairs[i][2])
                   => Contains(url, pairs[i][1] \o << 61 >> \o pairs[i][2])

C7_AbsentParamsOmitted ==
    \A s \in Sent : calls[s].op \in QueryOps => C7_QueryOfRequest(s)

\* C7 witness: updateDynDns without myip sent a URL that ends in
\* "?hostname=d.no".
C7_Witness ==
    \E s \in Sent :
        /\ calls[s].op = "updateDynDns"
        /\ Prop(calls[s].args.params, KeyMyip) = None
        /\ EndsWith(RequestOf(s).url,
                    << 63 >> \o KeyHostname \o << 61 >> \o S(<< "d", ".", "n", "o" >>))

\* The number of occurrences of the code unit c in s.
RECURSIVE Count(_, _)
Count(s, c) ==
    IF Len(s) = 0 THEN 0
    ELSE (IF s[1] = c THEN 1 ELSE 0) + Count(Tail(s), c)

\* C8 (as claimed): the URL of a request of getForward, updateForward or
\* deleteForward ends in "/forwards/" followed by the percent-encoded host:
\* the host is one path segment, the last, and adds no segment, no query
\* and no fragment.
C8_HostOfRequest(s) ==
    LET url == RequestOf(s).url
        host == Get(calls[s].args.host)
        base == clients[calls[s].client].baseUrl
                    \o DomainPath(calls[s].args.ids[1]) \o PathForwards
    IN  /\ EndsWith(url, PathForwards \o EncodeURIComponent(host))
        /\ Count(url, 47) = Count(base, 47)
        /\ Count(url, 63) = 0
        /\ Count(url, 35) = 0

C8_HostIsOneSegment ==
    \A s \in Sent : calls[s].op \in ForwardOps => C8_HostOfRequest(s)

IsDefinedMember(pair) == pair[2].t # "undefined"
HasKey(pairs, key) == \E i \in 1..Len(pairs) : pairs[i][1] = key
ValueOf(pairs, key) == pairs[CHOOSE i \in 1..Len(pairs) : pairs[i][1] = key][2]

\* C9: the body of a request of createDnsRecord or updateDnsRecord is JSON
\* text that decodes to the record the caller gave (its properties that are
\* not undefined, in order); a ttl given is the ttl of the body, and without
\* a ttl the body has no ttl key.
C9_BodyOfRequest(s) ==
    LET record == calls[s].args.body.v
        given == SelectSeq(record, IsDefinedMember)
        text == Get(RequestOf(s).body)
        decoded == JsonParse(text)
    IN  /\ IsSome(RequestOf(s).body)
        /\ JsonValid(text)
        /\ decoded = JsObject(given)
        /\ HasKey(given, KeyTtl)
               => HasKey(decoded.v, KeyTtl)
                  /\ ValueOf(decoded.v, KeyTtl) = ValueOf(record, KeyTtl)
        /\ ~HasKey(given, KeyTtl)
               => ~HasKey(decoded.v, KeyTtl) /\ ~Contains(text, KeyTtl)

C9_RecordBodyRoundTrip ==
    \A s \in Sent :
        calls[s].op \in {"createDnsRecord", "updateDnsRecord"} => C9_BodyOfRequest(s)

\* C9 witness: createDnsRecord with a record without ttl sent a body
\* without ttl that decodes to the record.
C9_Witness ==
    \E s \in Sent :
        /\ calls[s].op = "createDnsRecord"
        /\ calls[s].args.body = JsObject(RecordBase)
        /\ ~Contains(Get(RequestOf(s).body), KeyTtl)
        /\ JsonParse(Get(RequestOf(s).body)) = JsObject(RecordBase)

IsLatin1(s) == \A i \in 1..Len(s) : s[i] <= 255

\* What the constructor did with these options, as claimed: it throws
\* "token is required" for a missing or empty token, "secret is required"
\* for a missing or empty secret, and nothing otherwise.
C10_OutcomeAsClaimed(c) ==
    /\ Falsy(c.options.token) => c.thrown = Some(PlainError("Error", TokenRequired))
    /\ (~Falsy(c.options.token) /\ Falsy(c.options.secret))
           => c.thrown = Some(PlainError("Error", SecretRequired))
    /\ (~Falsy(c.options.token) /\ ~Falsy(c.options.secret)) => c.thrown = None

\* C10 (as claimed): the constructor fails exactly when the token or the
\* secret is missing or empty.
C10_ConstructionAsClaimed ==
    IsSome(construction) => C10_OutcomeAsClaimed(Get(construction))

\* What the constructor did with these options: as claimed for a missing or
\* empty field; with both fields present it returns when they hold
\* characters up to U+00FF only, and otherwise throws the
\* InvalidCharacterError of btoa. Nothing it throws is a DomeneshopError.
C10_Outcome(c) ==
    LET both == ~Falsy(c.options.token) /\ ~Falsy(c.options.secret)
        latin1 == IsLatin1(Get(c.options.token)) /\ IsLatin1(Get(c.options.secret))
    IN  /\ Falsy(c.options.token)
               => c.thrown = Some(PlainError("Error", TokenRequired))
        /\ (~Falsy(c.options.token) /\ Falsy(c.options.secret))
               => c.thrown = Some(PlainError("Error", SecretRequired))
        /\ (both /\ latin1) => c.thrown = None
        /\ (both /\ ~latin1)
               => IsSome(c.thrown) /\ Get(c.thrown).name = "InvalidCharacterError"
        /\ IsSome(c.thrown) => Get(c.thrown).name # "DomeneshopError"

\* A step that is a construction.
C10_ConstructionStep == construction' # construction /\ IsSome(construction')

\* C10 (amended): the outcome of a construction is C10_Outcome; a
\* construction that throws leaves the clients as they were, one that
\* returns adds one client, and neither touches a call or sends a request;
\* every request sent is the request of a constructed client, whose token
\* and secret are not empty.
C10_ConstructionValidated ==
    /\ [](IsSome(construction) => C10_Outcome(Get(construction)))
    /\ [](\A s \in Sent :
              /\ calls[s].client \in 1..Len(clients)
              /\ ~Falsy(OptionsOf(s).token)
              /\ ~Falsy(OptionsOf(s).secret))
    /\ [][C10_ConstructionStep =>
              /\ calls' = calls
              /\ IF IsSome(Get(construction').thrown)
                 THEN clients' = clients
                 ELSE /\ Len(clients') = Len(clients) + 1
                      /\ SubSeq(clients', 1, Len(clients)) = clients]_vars

\* C10 witness: with one client constructed, a construction with an empty
\* secret threw "secret is required" and there is still one client.
C10_Witness ==
    /\ IsSome(construction)
    /\ Get(construction).options.secret = Some(<< >>)
    /\ Get(construction).thrown = Some(PlainError("Error", SecretRequired))
    /\ Len(clients) = 1


\* The slots that hold a call.
Active == { s \in Slots : calls[s].pc # "idle" }

\* C11: a call whose fetch rejected with an error is rejected with that
\* very error: it is the error of the transport, no DomeneshopError, and
\* the call got no response and read no body.
C11_TransportErrorOfCall(s) ==
    LET error == Get(calls[s].transport)
    IN  /\ calls[s].pc = "settled"
        /\ calls[s].result = Rejected(error)
        /\ error \in TransportErrors
        /\ ErrorOf(s).name # "DomeneshopError"
        /\ calls[s].resp = None
        /\ calls[s].reads = << >>

C11_TransportErrorPropagates ==
    \A s \in Active : IsSome(calls[s].transport) => C11_TransportErrorOfCall(s)

\* C11 witness: getDomain(1), whose fetch rejected with "socket hang up",
\* is rejected with that error.
C11_Witness ==
    \E s \in Active :
        /\ calls[s].op = "getDomain"
        /\ calls[s].transport = Some(PlainError("Error", SocketHangUp))
        /\ calls[s].result = Rejected(PlainError("Error", SocketHangUp))

\* The outcome request gives for a response, from the response alone.
OutcomeOf(response) ==
    IF ~Ok(response) THEN
        LET decoded == ErrorJson(response, FALSE)
        IN  Rejected(DomeneshopError(ApiErrorMessage(response), response.status,
                IF IsSome(decoded) THEN Get(decoded) ELSE ErrorText(response, TRUE)))
    ELSE IF response.status = 204 THEN Resolved(JsUndefined)
    ELSE SuccessResult(response, FALSE)

\* C12 (as claimed): every invocation of an endpoint method has issued
\* exactly one request.
C12_OneRequestPerInvocation == \A s \in Active : calls[s].fetches = 1

\* A call in its slot: it has called fetch once, with its request, or it
\* has thrown before fetch and has no request; it waits for fetch until
\* the response or the transport's error has come; once settled with a
\* response its result is the outcome of that response.
C12_ExchangeOfCall(s) ==
    LET call == calls[s]
    IN  /\ call.fetches = (IF IsSome(call.req) THEN 1 ELSE 0)
        /\ ~IsSome(call.req)
               => /\ call.pc = "settled"
                  /\ call.result.kind = "rejected"
                  /\ \/ /\ Get(call.result.error) = PlainError("URIError", URIMalformed)
                        /\ call.op \in ForwardOps
                        /\ ~UriComponentOk(Get(call.args.host))
                     \/ /\ Get(call.result.error) = PlainError("TypeError", InvalidURL)
                        /\ ~UrlOk(clients[call.client].baseUrl)
        /\ ~(IsSome(call.resp) /\ IsSome(call.transport))
        /\ call.pc = "awaitFetch" <=>
               (IsSome(call.req) /\ ~IsSome(call.resp) /\ ~IsSome(call.transport))
        /\ (call.pc = "settled" /\ IsSome(call.resp))
               => call.result = OutcomeOf(Get(call.resp))
        /\ call.pc # "settled" => call.result = Pending

\* C12 (amended): every invocation issues exactly one request, whatever
\* the response or the failure of the transport, but for a forward call
\* whose host cannot be encoded and a call on a client whose base URL does
\* not parse, which issue none; a call keeps its
\* request and its response while it runs, and an invocation never starts
\* with a result taken from an earlier call.
C12_OneExchangePerCall ==
    /\ [](\A s \in Active : C12_ExchangeOfCall(s))
    /\ [][\A s \in Slots :
              /\ (calls[s].pc # "idle" /\ calls'[s].pc # "idle")
                     => /\ calls'[s].req = calls[s].req
                        /\ calls'[s].fetches = calls[s].fetches
                        /\ IsSome(calls[s].resp) => calls'[s].resp = calls[s].resp
              /\ (calls[s].pc = "idle" /\ calls'[s].pc # "idle")
                     => /\ calls'[s].resp = None
                        /\ IsSome(calls'[s].req) => calls'[s].result = Pending]_vars

\* C12 witness: a call whose fetch failed is settled and has called fetch
\* once.
C12_Witness ==
    \E s \in Active :
        /\ calls[s].pc = "settled"
        /\ IsSome(calls[s].transport)
        /\ calls[s].fetches = 1


\* What the method of a call does up to its first suspension on a client
\* in the given state, from the call's own arguments.
StartedOn(client, op, args) ==
    LET id1 == args.ids[1]
        id2 == args.ids[2]
        host == Get(args.host)
    IN  CASE op = "listDomains" ->
                 request(client, "GET", PathDomains,
                         WithParams(<< << KeyDomain, Prop(args.params, KeyDomain) >> >>))
          [] op = "getDomain" -> request(client, "GET", DomainPath(id1), NoParams)
          [] op = "listDnsRecords" ->
                 request(client, "GET", DomainPath(id1) \o PathDns,
                         WithParams(<< << KeyHost, Prop(args.params, KeyHost) >>,
                                       << KeyType, Prop(args.params, KeyType) >> >>))
          [] op = "createDnsRecord" ->
                 request(client, "POST", DomainPath(id1) \o PathDns, WithBody(args.body))
          [] op = "getDnsRecord" ->
                 request(client, "GET", RecordPath(id1, id2), NoParams)
          [] op = "updateDnsRecord" ->
                 request(client, "PUT", RecordPath(id1, id2), WithBody(args.body))
          [] op = "deleteDnsRecord" ->
                 request(client, "DELETE", RecordPath(id1, id2), NoParams)
          [] op = "updateDynDns" ->
                 request(client, "GET", PathDyndns,
                         WithParams(<< << KeyHostname, Prop(args.params, KeyHostname) >>,
                                       << KeyMyip, Prop(args.params, KeyMyip) >> >>))
          [] op = "listForwards" ->
                 request(client, "GET", DomainPath(id1) \o PathForwards, NoParams)
          [] op = "createForward" ->
                 request(client, "POST", DomainPath(id1) \o PathForwards,
                         WithBody(args.body))
          [] op = "getForward" -> ForwardRequest(client, "GET", id1, host, NoParams)
          [] op = "updateForward" ->
                 ForwardRequest(client, "PUT", id1, host, WithBody(args.body))
          [] op = "deleteForward" ->
                 ForwardRequest(client, "DELETE", id1, host, NoParams)
          [] op = "listInvoices" ->
                 request(client, "GET", PathInvoices,
                         WithParams(<< << KeyStatus, Prop(args.params, KeyStatus) >> >>))
          [] op = "getInvoice" ->
                 request(client, "GET",
                         PathInvoices \o << 47 >> \o NumberToString(id1), NoParams)

\* The request a call issues when it is the only call the client ever
\* made: the client is as the constructor left it.
RequestAlone(s) ==
    StartedOn(NewClient(OptionsOf(s)), calls[s].op, calls[s].args).req

\* The calls in flight: started and not settled.
InFlight == { s \in Slots : calls[s].pc \notin {"idle", "settled"} }

\* C13: with calls in flight together on one client, the request of each
\* call is the request it issues alone, and its outcome is the outcome of
\* its own response (or the error of its own fetch); a step of one call
\* changes no other call and no client.
C13_CallOnItsOwn(s) ==
    /\ calls[s].req = RequestAlone(s)
    /\ (calls[s].pc = "settled" /\ IsSome(calls[s].resp))
           => calls[s].result = OutcomeOf(ResponseOf(s))
    /\ (calls[s].pc = "settled" /\ IsSome(calls[s].transport))
           => calls[s].result = Rejected(Get(calls[s].transport))

C13_ConcurrentCallsIndependent ==
    /\ [](\A s \in Active : C13_CallOnItsOwn(s))
    /\ [][calls' # calls =>
              /\ \A c \in 1..Len(clients) : clients'[c] = clients[c]
              /\ \A s, r \in Slots :
                     (calls'[s] # calls[s] /\ r # s) => calls'[r] = calls[r]]_vars

\* C13 witness: a createDnsRecord and a getDomain started after it were in
\* flight together on one client; the response of the second came first,
\* and the first still waits for its own.
C13_Witness ==
    /\ calls[1].op = "createDnsRecord"
    /\ calls[1].pc = "awaitFetch"
    /\ calls[2].op = "getDomain"
    /\ calls[2].client = calls[1].client
    /\ calls[2].pc = "settled"
    /\ calls[2].result = Resolved(JsonBodyValue)
    /\ DOMAIN RequestOf(2).headers = {"Authorization"}

\* C14: every request issued through an instance carries the Authorization
\* header of that instance's credentials and starts with that instance's
\* base URL; each instance holds what the constructor gave it, and no
\* step, a construction or a call on any instance, changes an instance.
C14_RequestOfInstance(s) ==
    LET options == OptionsOf(s)
        base == IF IsSome(options.baseUrl) THEN Get(options.baseUrl)
                ELSE DEFAULT_BASE_URL
    IN  /\ RequestOf(s).headers["Authorization"]
               = BasicPrefix \o Base64(Get(options.token) \o << 58 >> \o Get(options.secret))
        /\ StartsWith(RequestOf(s).url, base)

C14_InstancesIndependent ==
    /\ [](\A s \in Sent : C14_RequestOfInstance(s))
    /\ [](\A c \in 1..Len(clients) : clients[c] = NewClient(clients[c].options))
    /\ [][\A c \in 1..Len(clients) : clients'[c] = clients[c]]_vars

\* C14 witness: two instances with different credentials and base URLs
\* each have a request in flight, each with its own header and base URL.
C14_Witness ==
    /\ Len(clients) = 2
    /\ clients[1].options.token # clients[2].options.token
    /\ clients[1].baseUrl # clients[2].baseUrl
    /\ calls[1].pc = "awaitFetch" /\ calls[2].pc = "awaitFetch"
    /\ calls[1].client = 2 /\ calls[2].client = 1
    /\ RequestOf(1).headers["Authorization"] # RequestOf(2).headers["Authorization"]
    /\ StartsWith(RequestOf(1).url, clients[2].baseUrl)
    /\ ~StartsWith(RequestOf(1).url, clients[1].baseUrl)


BaseUrlOf(s) == clients[calls[s].client].baseUrl

C15_UpdateForwardOfCall(s) ==
    LET host == Get(calls[s].args.host)
    IN  IF UriComponentOk(host) /\ UrlOk(BaseUrlOf(s))
        THEN /\ IsSome(calls[s].req)
             /\ RequestOf(s).method = "PUT"
             /\ IsSome(RequestOf(s).body)
             /\ JsonParse(Get(RequestOf(s).body)) = calls[s].args.body
        ELSE /\ ~IsSome(calls[s].req)
             /\ ErrorOf(s).name \in {"URIError", "TypeError"}

TableVerb(op) ==
    IF op \in {"createDnsRecord", "createForward"} THEN "POST"
    ELSE IF op \in {"updateDnsRecord", "updateForward"} THEN "PUT"
    ELSE IF op \in {"deleteDnsRecord", "deleteForward"} THEN "DELETE"
    ELSE "GET"

\* The endpoint table: the path of each method for the arguments of a call,
\* the numbers in decimal and the host percent-encoded.
TablePath(op, args) ==
    LET domain == PathDomains \o << 47 >> \o NumberToString(args.ids[1])
    IN  IF op = "listDomains" THEN PathDomains
        ELSE IF op = "getDomain" THEN domain
        ELSE IF op \in {"listDnsRecords", "createDnsRecord"} THEN domain \o PathDns
        ELSE IF op \in {"getDnsRecord", "updateDnsRecord", "deleteDnsRecord"}
            THEN domain \o PathDns \o << 47 >> \o NumberToString(args.ids[2])
        ELSE IF op = "updateDynDns" THEN PathDyndns
        ELSE IF op \in {"listForwards", "createForward"} THEN domain \o PathForwards
        ELSE IF op \in ForwardOps
            THEN domain \o PathForwards \o EncodeURIComponent(Get(args.host))
        ELSE IF op = "listInvoices" THEN PathInvoices
        ELSE PathInvoices \o << 47 >> \o NumberToString(args.ids[1])

\* A URL up to its query.
UrlWithoutQuery(url) == SubSeq(url, 1, FindAny(url, 1, {63, 35}) - 1)

\* C16 (as claimed): every call on a client whose base URL parses issues
\* its request, and the request holds the values as they were passed: the
\* numbers and the encoded host in the path, the parameters in the query,
\* the record or forward in the body.
C16_ValuesOfRequest(s) ==
    /\ IsSome(calls[s].req)
    /\ UrlWithoutQuery(RequestOf(s).url)
           = BaseUrlOf(s) \o TablePath(calls[s].op, calls[s].args)
    /\ calls[s].op \in QueryOps => C7_QueryOfRequest(s)
    /\ calls[s].op \in BodyOps
           => JsonParse(Get(RequestOf(s).body))
                  = JsObject(SelectSeq(calls[s].args.body.v, IsDefinedMember))

C16_NoClientSideRejection ==
    \A s \in Active : UrlOk(BaseUrlOf(s)) => C16_ValuesOfRequest(s)

\* C17 (as claimed): every request has the verb and the path of the
\* endpoint table for its method and arguments.
C17_EndpointTable ==
    \A s \in Sent :
        /\ RequestOf(s).method = TableVerb(calls[s].op)
        /\ UrlWithoutQuery(RequestOf(s).url)
               = BaseUrlOf(s) \o TablePath(calls[s].op, calls[s].args)


\* The production endpoint, as the claim spells it.
ProductionEndpoint ==
    S(<< "h", "t", "t", "p", "s", ":", "/", "/", "a", "p", "i", ".", "d", "o",
         "m", "e", "n", "e", "s", "h", "o", "p", ".", "n", "o", "/", "v", "0" >>)

\* The base URL the options of a client ask for.
BaseUrlOption(options) ==
    IF IsSome(options.baseUrl) THEN Get(options.baseUrl) ELSE ProductionEndpoint

\* C18: the URL of every request is the base URL of its client, the
\* baseUrl option when one was given and https://api.domeneshop.no/v0
\* otherwise, followed by the path of the operation and the query; a
\* client's base URL is the one the constructor set, and no step changes
\* it.
C18_UrlOfRequest(s) ==
    LET url == RequestOf(s).url
        base == BaseUrlOption(OptionsOf(s))
        rest == Drop(url, Len(base))
    IN  /\ StartsWith(url, base)
        /\ \/ StartsWith(rest, PathDomains)
           \/ StartsWith(rest, PathDyndns)
           \/ StartsWith(rest, PathInvoices)
        /\ calls[s].op \notin ForwardOps
               => UrlWithoutQuery(url) = base \o TablePath(calls[s].op, calls[s].args)
        /\ calls[s].op \notin QueryOps => UrlWithoutQuery(url) = url

Suspensions(s) == calls[s].fetches + Len(calls[s].reads)

\* C19 (as claimed): a call suspends once, at the wait for the response,
\* and never again between the response and its completion.
C19_OneSuspendPoint == \A s \in Active : Suspensions(s) <= 1

\* The body reads request awaits for a response: none for a 204, text()
\* for any other 2xx, json() for any other status, and text() after it
\* when json() rejected.
ReadsFor(response) ==
    IF response.status \in 200..299
    THEN IF response.status = 204 THEN << >> ELSE << "text" >>
    ELSE IF IsSome(response.body) /\ JsonValid(Get(response.body))
        THEN << "json" >>
    ELSE << "json", "text" >>

\* C19 (amended): a call that got a response has suspended at the wait for
\* the response and once more for every read of the body: once in all for
\* a 204, twice for any other 2xx and for a non-2xx whose body is JSON,
\* three times for a non-2xx whose body is not JSON; each read is awaited
\* where the call stands, and a call whose fetch failed has suspended once.
C19_SuspensionsOfCall(s) ==
    LET call == calls[s]
    IN  /\ call.pc = "awaitFetch" => Suspensions(s) = 1
        /\ call.pc = "awaitText" => call.reads = << "text" >>
        /\ call.pc = "awaitErrorJson" => call.reads = << "json" >>
        /\ call.pc = "awaitErrorText" => call.reads = << "json", "text" >>
        /\ (call.pc = "settled" /\ IsSome(call.resp))
               => /\ call.reads = ReadsFor(Get(call.resp))
                  /\ Suspensions(s) = 1 + Len(ReadsFor(Get(call.resp)))
        /\ (call.pc = "settled" /\ IsSome(call.transport)) => Suspensions(s) = 1
        /\ ~IsSome(call.req) => Suspensions(s) = 0

C19_SuspendPointsPerPath == \A s \in Active : C19_SuspensionsOfCall(s)

\* C19 witness: a call answered by a 500 with a text body is settled after
\* three suspensions: fetch, json(), text().
C19_Witness ==
    \E s \in Answered :
        /\ ResponseOf(s).status = 500
        /\ ResponseOf(s).body = Some(TextBody)
        /\ calls[s].reads = << "json", "text" >>
        /\ Suspensions(s) = 3


\* The calls whose response is not 2xx.
Failed == { s \in Slots : IsSome(calls[s].resp) /\ ResponseOf(s).status \notin 200..299 }

\* The call is rejected with the API error of its response.
ApiErrorThrown(s) ==
    /\ calls[s].pc = "settled"
    /\ calls[s].result.kind = "rejected"
    /\ ErrorOf(s).name = "DomeneshopError"
    /\ ErrorOf(s).status = Some(ResponseOf(s).status)
    /\ ErrorOf(s).message = ApiErrorMessage(ResponseOf(s))

\* C20: on a response that is not 2xx, json() is the first read and text()
\* is read only after json() has rejected (the body is not JSON, or its
\* stream fails); the call is rejected with the DomeneshopError of the
\* response's status and no other error; when text() rejects too (the
\* stream fails, or the body has been used by json()) the error's body is
\* undefined; and a call that reads the body of such a response is
\* rejected with the API error in the end.
C20_DecodingOfCall(s) ==
    LET call == calls[s]
        response == ResponseOf(s)
        jsonFails == ~IsSome(response.body) \/ ~JsonValid(Get(response.body))
        textFails == ~IsSome(response.body) \/ response.oneShot
    IN  /\ call.reads \in { << "json" >>, << "json", "text" >> }
        /\ call.reads = << "json", "text" >> => jsonFails
        /\ call.pc \in {"awaitErrorJson", "awaitErrorText", "settled"}
        /\ call.pc # "settled" => call.result = Pending
        /\ call.pc = "settled"
               => /\ ApiErrorThrown(s)
                  /\ call.reads = << "json" >> <=> ~jsonFails
                  /\ (jsonFails /\ textFails) => ErrorOf(s).body = JsUndefined
                  /\ (jsonFails /\ ~textFails)
                         => ErrorOf(s).body = JsString(Get(response.body))

C20_ErrorBodyDecodedInOrder ==
    /\ [](\A s \in Failed : C20_DecodingOfCall(s))
    /\ \A s \in Slots : (s \in Failed) ~> ApiErrorThrown(s)

\* C20 witness: a call answered by a 500 whose body stream fails has read
\* json(), then text(), and is rejected with status 500 and no body.
C20_Witness ==
    \E s \in Failed :
        /\ ResponseOf(s).status = 500
        /\ ResponseOf(s).body = None
        /\ calls[s].reads = << "json", "text" >>
        /\ ApiErrorThrown(s)
        /\ ErrorOf(s).body = JsUndefined


\* The body of the response can be read and is JSON.
JsonBodied(response) ==
    IsSome(response.body) /\ JsonValid(Get(response.body))

\* C21: a call answered by a 2xx response other than 204 whose body is not
\* empty and not JSON is rejected with the SyntaxError of JSON.parse, which
\* is no DomeneshopError and has no status and no body. A call resolves
\* only on a 2xx response: with undefined when the status is 204 (the body
\* is not read) or the body is empty, else with the value of a body that is
\* JSON; so it resolves with a value other than undefined only when the
\* body is JSON. A DomeneshopError is thrown only on a response that is not
\* 2xx.
C21_ResultOfCall(s) ==
    LET response == ResponseOf(s)
        result == calls[s].result
    IN  /\ (/\ Ok(response)
            /\ response.status # 204
            /\ IsSome(response.body)
            /\ Len(Get(response.body)) > 0
            /\ ~JsonValid(Get(response.body)))
               => /\ result.kind = "rejected"
                  /\ ErrorOf(s).name = "SyntaxError"
                  /\ ErrorOf(s).status = None
                  /\ ErrorOf(s).body = JsUndefined
        /\ result.kind = "resolved"
               => /\ Ok(response)
                  /\ \/ response.status = 204
                     \/ response.body = Some(<< >>)
                     \/ JsonBodied(response)
                  /\ result.value # JsUndefined
                         => /\ response.status # 204
                            /\ JsonBodied(response)
                            /\ result.value = JsonParse(Get(response.body))
        /\ (result.kind = "rejected" /\ ErrorOf(s).name = "DomeneshopError")
               => ~Ok(response)

C21_ParseErrorOnSuccess == \A s \in Answered : C21_ResultOfCall(s)

\* C21 witness: a call answered by a 200 whose body is text that is not JSON
\* is rejected with a SyntaxError that has no status and no body.
C21_Witness ==
    \E s \in Answered :
        /\ ResponseOf(s).status = 200
        /\ ResponseOf(s).body = Some(TextBody)
        /\ calls[s].result.kind = "rejected"
        /\ ErrorOf(s).name = "SyntaxError"
        /\ ErrorOf(s).status = None
        /\ ErrorOf(s).body = JsUndefined


\* The step invokes an endpoint method in slot s: when the step is over the
\* method has returned its promise.
Invoked(s) == calls[s].pc = "idle" /\ calls'[s].pc # "idle"

C22_StepOfCall(s) ==
    /\ Invoked(s)
           => LET call == calls'[s]
                  started == StartedOn(clients[call.client], call.op, call.args)
              IN  \/ /\ call.pc = "awaitFetch"
                     /\ IsSome(call.req)
                     /\ call.req = started.req
                     /\ call.fetches = 1
                     /\ call.result = Pending
                  \/ /\ call.pc = "settled"
                     /\ ~IsSome(call.req)
                     /\ call.fetches = 0
                     /\ call.result.kind = "rejected"
                     /\ Get(call.result.error).name \in {"URIError", "TypeError"}
    /\ (~Invoked(s) /\ calls'[s].pc # "idle")
           => /\ calls'[s].req = calls[s].req
              /\ calls'[s].fetches = calls[s].fetches

=============================================================================
